---- MODULE Spec2Model ----
(***************************************************************************)
(* Shipping Schedule Organizer (src/app.py): the date helpers, the         *)
(* ingestion adapters (CNC / TSL uploads, IAL / KMTC / YML scrapes) and    *)
(* the per-carrier session store behind the dashboard handlers.            *)
(*                                                                         *)
(* Text that the code parses character by character (dates) is a sequence  *)
(* of one-character strings; text the code only compares or tests for      *)
(* emptiness (vessel, voyage, cut-off cells) is a TLA+ string.             *)
(***************************************************************************)
EXTENDS Integers, Sequences, FiniteSets, TLC

VARIABLES
    data_store,   \* st.session_state.data_store: carrier -> list of records
    last,         \* the handler that ran last: its DataFrame, whether it called
                  \* store_data, and the carrier's slot as it was before
    pc,           \* position in the loop of "Scrape All at Once" (0: no loop)
    call,         \* a single invocation under test: what is called, on what
    ret           \* its outcome

vars == <<data_store, last, pc, call, ret>>

(***************************************************************************)
(* Bounds                                                                  *)
(***************************************************************************)
\* number of days after BaseDate covered by the date inputs
DateSpan == 40

\* files in one upload
MaxFiles == 2

(***************************************************************************)
(* Constants of the program                                                *)
(***************************************************************************)
POD_LIST == <<"HONG KONG", "SHEKOU", "KAOHSIUNG", "TAICHUNG">>

OUTPUT_COLS ==
    <<"POL", "POD", "Vessel", "Voyage", "ETD", "ETA", "T/T Time", "CY Cut-off",
      "SI Cut-off">>

CARRIER_LIST == <<"CNC", "TSL", "IAL", "KMTC", "YML">>

DayNames == {"MON", "TUE", "WED", "THU", "FRI", "SAT", "SUN"}

DAY_TO_NUM == [d \in DayNames |->
    CASE d = "MON" -> 0 [] d = "TUE" -> 1 [] d = "WED" -> 2 [] d = "THU" -> 3
      [] d = "FRI" -> 4 [] d = "SAT" -> 5 [] d = "SUN" -> 6]

SeqToSet(s) == {s[i] : i \in 1..Len(s)}

(***************************************************************************)
(* datetime: proleptic Gregorian ordinals, as CPython computes them        *)
(***************************************************************************)
is_leap(y) == y % 4 = 0 /\ (y % 100 # 0 \/ y % 400 = 0)

DAYS_IN_MONTH == <<31, 28, 31, 30, 31, 30, 31, 31, 30, 31, 30, 31>>

DAYS_BEFORE_MONTH == <<0, 31, 59, 90, 120, 151, 181, 212, 243, 273, 304, 334>>

days_in_month(y, m) == IF m = 2 /\ is_leap(y) THEN 29 ELSE DAYS_IN_MONTH[m]

days_before_year(y) ==
    (y - 1) * 365 + (y - 1) \div 4 - (y - 1) \div 100 + (y - 1) \div 400

days_before_month(y, m) ==
    DAYS_BEFORE_MONTH[m] + (IF m > 2 /\ is_leap(y) THEN 1 ELSE 0)

\* datetime(y, m, d).toordinal()
ymd2ord(y, m, d) == days_before_year(y) + days_before_month(y, m) + d

\* datetime.fromordinal(n) as <<year, month, day>>: the 400, 100, 4 and 1
\* year cycles before day n, then the month from an estimate that is right
\* or one too large
ord2ymd(n) ==
    LET in_month(year, leap, r1, month, prec) ==
            IF prec > r1
            THEN <<year, month - 1,
                   r1 - (prec - (DAYS_IN_MONTH[month - 1]
                                 + (IF month - 1 = 2 /\ leap THEN 1 ELSE 0))) + 1>>
            ELSE <<year, month, r1 - prec + 1>>
        in_year(year, leap, r1, month) ==
            in_month(year, leap, r1, month,
                     DAYS_BEFORE_MONTH[month] + (IF month > 2 /\ leap THEN 1 ELSE 0))
        cycle1(n400, n100, n4, n1, r1) ==
            IF n1 = 4 \/ n100 = 4
            THEN <<n400 * 400 + n100 * 100 + n4 * 4 + n1, 12, 31>>
            ELSE in_year(n400 * 400 + 1 + n100 * 100 + n4 * 4 + n1,
                         n1 = 3 /\ (n4 # 24 \/ n100 = 3), r1, (r1 + 50) \div 32)
        cycle4(n400, n100, n4, r4) == cycle1(n400, n100, n4, r4 \div 365, r4 % 365)
        cycle100(n400, n100, r100) == cycle4(n400, n100, r100 \div 1461, r100 % 1461)
        cycle400(n400, r400) == cycle100(n400, r400 \div 36524, r400 % 36524)
    IN  cycle400((n - 1) \div 146097, (n - 1) % 146097)

\* datetime.weekday(): Monday is 0
weekday(n) == (n + 6) % 7

(***************************************************************************)
(* Text as a sequence of characters                                        *)
(***************************************************************************)
Digits == <<"0", "1", "2", "3", "4", "5", "6", "7", "8", "9">>

IsDigit(c) == c \in SeqToSet(Digits)

DigitVal(c) == (CHOOSE i \in 1..10 : Digits[i] = c) - 1

IsSpace(c) == c = " "

\* value of a run of digits
RECURSIVE NumVal(_)
NumVal(s) ==
    IF s = <<>> THEN 0
    ELSE 10 * NumVal(SubSeq(s, 1, Len(s) - 1)) + DigitVal(s[Len(s)])

\* zero-padded decimal of width w, as strftime writes %Y (4), %m and %d (2)
RECURSIVE Pad(_, _)
Pad(n, w) ==
    IF w = 0 THEN <<>>
    ELSE Append(Pad(n \div 10, w - 1), Digits[(n % 10) + 1])

\* str.strip()
RECURSIVE lstrip(_)
lstrip(s) == IF s # <<>> /\ IsSpace(s[1]) THEN lstrip(Tail(s)) ELSE s

RECURSIVE rstrip(_)
rstrip(s) ==
    IF s # <<>> /\ IsSpace(s[Len(s)]) THEN rstrip(SubSeq(s, 1, Len(s) - 1)) ELSE s

strip(s) == rstrip(lstrip(s))

\* the fields of s between occurrences of the separator
RECURSIVE Split(_, _)
Split(s, sep) ==
    IF \A i \in 1..Len(s) : s[i] # sep THEN <<s>>
    ELSE LET cut(k) == <<SubSeq(s, 1, k - 1)>> \o Split(SubSeq(s, k + 1, Len(s)), sep)
         IN  cut(CHOOSE i \in 1..Len(s) :
                     s[i] = sep /\ \A j \in 1..(i - 1) : s[j] # sep)

AllDigits(s) == \A i \in 1..Len(s) : IsDigit(s[i])

(***************************************************************************)
(* datetime.strptime / strftime for the formats safe_date_str uses         *)
(***************************************************************************)
\* a format is the order of its three directives and its separator
FMT_YMD_SLASH == [dirs |-> <<"Y", "m", "d">>, sep |-> "/"]
FMT_YMD_DASH  == [dirs |-> <<"Y", "m", "d">>, sep |-> "-"]
FMT_DMY_SLASH == [dirs |-> <<"d", "m", "Y">>, sep |-> "/"]
FMT_MDY_SLASH == [dirs |-> <<"m", "d", "Y">>, sep |-> "/"]
FMT_DMY_DASH  == [dirs |-> <<"d", "m", "Y">>, sep |-> "-"]

\* the regular expression of one directive, matched against a whole field:
\*   %Y  \d\d\d\d      %m  1[0-2]|0[1-9]|[1-9]
\*   %d  3[01]|[12]\d|0[1-9]|[1-9]| [1-9]
FieldMatches(dir, f) ==
    CASE dir = "Y" -> Len(f) = 4 /\ AllDigits(f)
      [] dir = "m" -> /\ Len(f) \in 1..2
                      /\ AllDigits(f)
                      /\ NumVal(f) \in 1..12
      [] dir = "d" -> \/ /\ Len(f) \in 1..2
                         /\ AllDigits(f)
                         /\ NumVal(f) \in 1..31
                      \/ /\ Len(f) = 2
                         /\ IsSpace(f[1])
                         /\ IsDigit(f[2])
                         /\ DigitVal(f[2]) \in 1..9

FieldVal(f) == IF IsSpace(f[1]) THEN DigitVal(f[2]) ELSE NumVal(f)

NoDate == [ok |-> FALSE, ord |-> 0]

\* datetime.strptime(s, fmt): ok = FALSE stands for ValueError
strptime(s, fmt) ==
    LET pos(dir) == CHOOSE i \in 1..3 : fmt.dirs[i] = dir
        date(y, m, d) ==
            IF y < 1 \/ d > days_in_month(y, m) THEN NoDate
            ELSE [ok |-> TRUE, ord |-> ymd2ord(y, m, d)]
        fields(fs) ==
            IF Len(fs) # 3 THEN NoDate
            ELSE IF \E i \in 1..3 : ~FieldMatches(fmt.dirs[i], fs[i]) THEN NoDate
            ELSE date(FieldVal(fs[pos("Y")]), FieldVal(fs[pos("m")]),
                      FieldVal(fs[pos("d")]))
    IN  fields(Split(s, fmt.sep))

\* datetime.strftime("%Y/%m/%d")
strftime_ymd(n) ==
    LET text(t) == Pad(t[1], 4) \o <<"/">> \o Pad(t[2], 2) \o <<"/">> \o Pad(t[3], 2)
    IN  text(ord2ymd(n))

(***************************************************************************)
(* safe_date_str                                                           *)
(***************************************************************************)
\* values a cell can hold
NoneVal        == [t |-> "none",     ord |-> 0, s |-> <<>>]
FloatVal       == [t |-> "float",    ord |-> 0, s |-> <<>>]
DatetimeVal(n) == [t |-> "datetime", ord |-> n, s |-> <<>>]
StrVal(s)      == [t |-> "str",      ord |-> 0, s |-> s]

Returned(s) == [raised |-> FALSE, s |-> s]
Raised      == [raised |-> TRUE,  s |-> <<>>]

\* variant: the month-first format tried before the day-first one
SAFE_DATE_FORMATS_month_first ==
    <<FMT_YMD_SLASH, FMT_YMD_DASH, FMT_MDY_SLASH, FMT_DMY_SLASH, FMT_DMY_DASH>>

SAFE_DATE_FORMATS ==
    <<FMT_YMD_SLASH, FMT_YMD_DASH, FMT_DMY_SLASH, FMT_MDY_SLASH, FMT_DMY_DASH>>

\* the for loop over the formats, from format i on
RECURSIVE try_formats(_, _)
try_formats(s, i) ==
    IF i > Len(SAFE_DATE_FORMATS) THEN s
    ELSE LET parsed(p) == IF p.ok THEN strftime_ymd(p.ord) ELSE try_formats(s, i + 1)
         IN  parsed(strptime(s, SAFE_DATE_FORMATS[i]))

\* "import pandas as pd" in the body makes pd a local name of the function,
\* so the test pd.isna(val) of the first line, reached for every float,
\* raises UnboundLocalError
safe_date_str(val) ==
    CASE val.t = "none"     -> Returned(<<>>)
      [] val.t = "float"    -> Raised
      [] val.t = "datetime" -> Returned(strftime_ymd(val.ord))
      [] val.t = "str"      -> Returned(try_formats(strip(val.s), 1))

(***************************************************************************)
(* days_back_from_etd                                                      *)
(***************************************************************************)
\* variant: the difference of the weekdays taken the other way round
days_back_from_etd_reversed(etd_date, day_name) ==
    IF day_name \notin DayNames THEN etd_date
    ELSE LET target_wd == DAY_TO_NUM[day_name]
             etd_wd    == weekday(etd_date)
             delta     == (target_wd - etd_wd) % 7
         IN  etd_date - delta

days_back_from_etd(etd_date, day_name) ==
    IF day_name \notin DayNames THEN etd_date
    ELSE LET target_wd == DAY_TO_NUM[day_name]
             etd_wd    == weekday(etd_date)
             delta     == (etd_wd - target_wd) % 7
         IN  etd_date - delta

(***************************************************************************)
(* Words whose letters the code inspects (upper(), "in", endswith): the    *)
(* vocabulary of cell texts and what the string tests answer on it         *)
(***************************************************************************)
\* the letters str.upper() / str.lower() / str.title() change
ASCII_UPPERCASE ==
    <<"A", "B", "C", "D", "E", "F", "G", "H", "I", "J", "K", "L", "M", "N",
      "O", "P", "Q", "R", "S", "T", "U", "V", "W", "X", "Y", "Z">>

ASCII_LOWERCASE ==
    <<"a", "b", "c", "d", "e", "f", "g", "h", "i", "j", "k", "l", "m", "n",
      "o", "p", "q", "r", "s", "t", "u", "v", "w", "x", "y", "z">>

IsUpper(c) == \E i \in 1..Len(ASCII_UPPERCASE) : ASCII_UPPERCASE[i] = c

IsLower(c) == \E i \in 1..Len(ASCII_LOWERCASE) : ASCII_LOWERCASE[i] = c

upper_char(c) ==
    IF IsLower(c)
    THEN ASCII_UPPERCASE[CHOOSE i \in 1..Len(ASCII_LOWERCASE) : ASCII_LOWERCASE[i] = c]
    ELSE c

\* the characters of a text, and the text of a sequence of characters
chars(s) == [i \in 1..Len(s) |-> SubSeq(s, i, i)]

RECURSIVE str_of(_)
str_of(cs) ==
    IF cs = <<>> THEN ""
    ELSE IF Len(cs) = 1 THEN cs[1]
    ELSE str_of(SubSeq(cs, 1, Len(cs) \div 2))
         \o str_of(SubSeq(cs, Len(cs) \div 2 + 1, Len(cs)))

\* variant: the text as it is written
upper_as_written(s) == s

\* str.upper()
upper(s) == str_of([i \in 1..Len(s) |-> upper_char(SubSeq(s, i, i))])

\* str.lower(), on a sequence of characters
lower_char(c) ==
    IF IsUpper(c)
    THEN ASCII_LOWERCASE[CHOOSE i \in 1..Len(ASCII_UPPERCASE) : ASCII_UPPERCASE[i] = c]
    ELSE c

lower(s) == [i \in 1..Len(s) |-> lower_char(s[i])]

endswith(s, suf) ==
    Len(s) >= Len(suf) /\ SubSeq(s, Len(s) - Len(suf) + 1, Len(s)) = suf

\* sub in s, for a text and for a sequence of characters
has_sub(s, sub) ==
    \E i \in 1..(Len(s) - Len(sub) + 1) : SubSeq(s, i, i + Len(sub) - 1) = sub

\* std in s, "HAIPHONG" in pol
contains(s, sub) == has_sub(s, sub)

W_DAY  == <<"d", "a", "y">>
W_DAYS == <<"d", "a", "y", "s">>

normalize_pod(pod_str) ==
    LET first(s, hits) ==
            IF hits = {} THEN s
            ELSE POD_LIST[CHOOSE i \in hits : \A j \in hits : i <= j]
        scan(s) == first(s, {i \in 1..Len(POD_LIST) : contains(s, POD_LIST[i])})
    IN  scan(upper(pod_str))

(***************************************************************************)
(* Records: a row of an adapter's DataFrame (OUTPUT_COLS), and a stored    *)
(* row, which has the Carrier column as well                               *)
(***************************************************************************)
\* variant: the two ports written to each other's column
Row_ports_swapped(pol, pod, vessel, voyage, etd, eta, tt, cy, si) ==
    [pol |-> pod, pod |-> pol, vessel |-> vessel, voyage |-> voyage,
     etd |-> etd, eta |-> eta, tt |-> tt, cy |-> cy, si |-> si]

Row(pol, pod, vessel, voyage, etd, eta, tt, cy, si) ==
    [pol |-> pol, pod |-> pod, vessel |-> vessel, voyage |-> voyage,
     etd |-> etd, eta |-> eta, tt |-> tt, cy |-> cy, si |-> si]

WithCarrier(r, carrier) ==
    [carrier |-> carrier, pol |-> r.pol, pod |-> r.pod, vessel |-> r.vessel,
     voyage |-> r.voyage, etd |-> r.etd, eta |-> r.eta, tt |-> r.tt,
     cy |-> r.cy, si |-> r.si]

\* the natural key of a stored record
NaturalKey(r) == <<r.carrier, r.pol, r.pod, r.vessel, r.voyage, r.etd>>

RECURSIVE Concat(_)
Concat(ss) == IF ss = <<>> THEN <<>> ELSE Head(ss) \o Concat(Tail(ss))

(***************************************************************************)
(* parse_cnc                                                               *)
(***************************************************************************)
\* a cell of a pandas row: a text, or the float NaN of an empty cell
cell_str(c) == IF c.nan THEN "nan" ELSE c.s

cell_val(c) == IF c.nan THEN FloatVal ELSE StrVal(c.s)

\* the T/T suffix rule of the three CNC branches
cnc_tt(raw) ==
    LET suffixed(tt) ==
            IF tt # <<>> /\ ~endswith(lower(tt), W_DAY) /\ ~endswith(lower(tt), W_DAYS)
            THEN tt \o <<" ">> \o W_DAYS
            ELSE tt
    IN  suffixed(strip(raw))

\* one iteration of the CSV row loop: the rows appended (none when the row
\* is skipped) and whether the iteration raised
cnc_csv_row(row) ==
    LET append(pod, etd, eta) ==
            IF etd.raised \/ eta.raised THEN [rows |-> <<>>, raised |-> TRUE]
            ELSE [rows |-> <<Row("HAIPHONG", pod, cell_str(row.vessel), row.voyage,
                                 etd.s, eta.s, cnc_tt(row.tt), strip(row.cy),
                                 strip(row.si))>>,
                  raised |-> FALSE]
        iteration(pol, pod) ==
            IF pod \notin SeqToSet(POD_LIST) THEN [rows |-> <<>>, raised |-> FALSE]
            ELSE IF ~contains(pol, "HAIPHONG") THEN [rows |-> <<>>, raised |-> FALSE]
            ELSE append(pod, safe_date_str(cell_val(row.etd)),
                        safe_date_str(cell_val(row.eta)))
    IN  iteration(upper(row.pol), normalize_pod(row.pod))

\* the Excel branch has no origin test
cnc_excel_row(row) ==
    LET append(pod, etd, eta) ==
            IF etd.raised \/ eta.raised THEN [rows |-> <<>>, raised |-> TRUE]
            ELSE [rows |-> <<Row("HAIPHONG", pod, cell_str(row.vessel), row.voyage,
                                 etd.s, eta.s, cnc_tt(row.tt), strip(row.cy),
                                 strip(row.si))>>,
                  raised |-> FALSE]
        iteration(pod) ==
            IF pod \notin SeqToSet(POD_LIST) THEN [rows |-> <<>>, raised |-> FALSE]
            ELSE append(pod, safe_date_str(cell_val(row.etd)),
                        safe_date_str(cell_val(row.eta)))
    IN  iteration(normalize_pod(row.pod))

\* a cell of an extracted PDF table is a text (None reads as ""): g(key)
cnc_pdf_row(row) ==
    LET iteration(pod) ==
            IF pod \notin SeqToSet(POD_LIST) THEN [rows |-> <<>>, raised |-> FALSE]
            ELSE [rows |-> <<Row("HAIPHONG", pod, row.vessel.s, row.voyage,
                                 safe_date_str(StrVal(row.etd.s)).s,
                                 safe_date_str(StrVal(row.eta.s)).s,
                                 cnc_tt(row.tt), strip(row.cy), strip(row.si))>>,
                  raised |-> FALSE]
    IN  iteration(normalize_pod(row.pod))

cnc_row(kind, row) ==
    CASE kind = "csv" -> cnc_csv_row(row)
      [] kind = "pdf" -> cnc_pdf_row(row)
      [] OTHER        -> cnc_excel_row(row)

\* the row loop inside try/except: an exception ends the loop and keeps the
\* rows appended so far
RECURSIVE cnc_rows(_, _)
cnc_rows(kind, rows) ==
    IF rows = <<>> THEN <<>>
    ELSE LET after(r) == IF r.raised THEN <<>> ELSE r.rows \o cnc_rows(kind, Tail(rows))
         IN  after(cnc_row(kind, Head(rows)))

\* file.readable = FALSE: read_csv / pdfplumber.open / read_excel raises
parse_cnc(file) ==
    IF ~file.readable THEN <<>> ELSE cnc_rows(file.kind, file.rows)

(***************************************************************************)
(* parse_tsl                                                               *)
(***************************************************************************)
\* a datetime: the ordinal of its date and the seconds of its time of day
midnight(n) == [ord |-> n, sec |-> 0]

\* a comparison that is also true of equal datetimes
dt_le(a, b) == a.ord < b.ord \/ (a.ord = b.ord /\ a.sec <= b.sec)

dt_lt(a, b) == a.ord < b.ord \/ (a.ord = b.ord /\ a.sec < b.sec)

\* datetime(sel_year, sel_month, 1)
range_start(year, month) == midnight(ymd2ord(year, month, 1))

\* datetime(sel_year, sel_month, last_day, 23, 59, 59)
range_end(year, month) ==
    [ord |-> ymd2ord(year, month, days_in_month(year, month)), sec |-> 86399]

\* f"{n}" for a non-negative integer
RECURSIVE int_str(_)
int_str(n) ==
    IF n < 10 THEN <<Digits[n + 1]>>
    ELSE Append(int_str(n \div 10), Digits[(n % 10) + 1])

\* a cut-off that keeps the time of a rule without a weekday
tsl_cutoff_time_kept(etd_ord, day, time) ==
    IF day = "" THEN time
    ELSE strftime_ymd(days_back_from_etd(etd_ord, day))
         \o (IF time # <<>> THEN <<" ">> \o time ELSE <<>>)

\* the cut-off of one rule component pair: blank without a weekday
tsl_cutoff(etd_ord, day, time) ==
    IF day = "" THEN <<>>
    ELSE strftime_ymd(days_back_from_etd(etd_ord, day))
         \o (IF time # <<>> THEN <<" ">> \o time ELSE <<>>)

\* the transit time of a row: the "(N days)" note of the ETA cell, else the
\* difference of the two dates when the ETA is a full date
tsl_tt(row, etd_ord, eta_str) ==
    LET days(p) ==
            IF eta_str # <<>> /\ p.ok /\ p.ord - etd_ord >= 0
            THEN int_str(p.ord - etd_ord) \o <<" ">> \o W_DAYS
            ELSE <<>>
    IN  IF row.eta_note # <<>> THEN row.eta_note \o <<" ">> \o W_DAYS
        ELSE days(strptime(eta_str, FMT_YMD_SLASH))

\* variant: no destination for a row without one
tsl_pods_without_fallback(row) ==
    LET hit(p) == p \in row.pods IN SelectSeq(POD_LIST, hit)

\* the destinations of a row: the POD columns with a non-empty cell, in the
\* order of the header, and HONG KONG when there is none
tsl_pods(row) ==
    LET hit(p) == p \in row.pods
        fallback(ps) == IF ps = <<>> THEN <<POD_LIST[1]>> ELSE ps
    IN  fallback(SelectSeq(POD_LIST, hit))

\* one data row of a sheet: the records appended for it
tsl_sheet_row(row, rules, start_dt, end_dt) ==
    LET append(etd_str, eta_str, tt_str, cy, si, pods) ==
            [i \in 1..Len(pods) |->
                Row("HAIPHONG", pods[i], row.vessel, row.voyage,
                    etd_str, eta_str, tt_str, cy, si)]
        cutoffs(etd_str, etd_ord, eta_str, svc) ==
            append(etd_str, eta_str, tsl_tt(row, etd_ord, eta_str),
                   IF svc \in DOMAIN rules
                   THEN tsl_cutoff(etd_ord, rules[svc].cy_day, rules[svc].cy_time)
                   ELSE <<>>,
                   IF svc \in DOMAIN rules
                   THEN tsl_cutoff(etd_ord, rules[svc].si_day, rules[svc].si_time)
                   ELSE <<>>,
                   tsl_pods(row))
        in_range(etd_str, p) ==
            IF ~p.ok THEN <<>>
            ELSE IF dt_lt(midnight(p.ord), start_dt) \/ dt_lt(end_dt, midnight(p.ord))
            THEN <<>>
            ELSE cutoffs(etd_str, p.ord, safe_date_str(StrVal(row.eta)).s,
                         upper(row.service))
        dated(etd_str) ==
            IF etd_str = <<>> THEN <<>>
            ELSE in_range(etd_str, strptime(etd_str, FMT_YMD_SLASH))
    IN  IF row.vessel = "" \/ row.voyage = "" \/ row.etd = <<>> THEN <<>>
        ELSE IF upper(row.vessel) \in {"VESSEL", "VESSEL NAME", ""} THEN <<>>
        ELSE dated(safe_date_str(StrVal(row.etd)).s)

RECURSIVE tsl_sheet_rows(_, _, _, _)
tsl_sheet_rows(rows, rules, start_dt, end_dt) ==
    IF rows = <<>> THEN <<>>
    ELSE tsl_sheet_row(Head(rows), rules, start_dt, end_dt)
         \o tsl_sheet_rows(Tail(rows), rules, start_dt, end_dt)

\* _parse_tsl_sheet over the data rows of one worksheet
parse_tsl_sheet(ws, start_dt, end_dt) ==
    tsl_sheet_rows(ws.rows, ws.rules, start_dt, end_dt)

\* one row of an extracted PDF table
tsl_pdf_row(row, start_dt, end_dt) ==
    LET in_range(etd_str, p) ==
            IF ~p.ok THEN <<>>
            ELSE IF dt_lt(midnight(p.ord), start_dt) \/ dt_lt(end_dt, midnight(p.ord))
            THEN <<>>
            ELSE <<Row("HAIPHONG", "HONG KONG", row.vessel, row.voyage,
                       etd_str, safe_date_str(StrVal(row.eta)).s,
                       IF row.eta_note # <<>>
                       THEN row.eta_note \o <<" ">> \o W_DAYS ELSE <<>>,
                       <<>>, <<>>)>>
        dated(etd_str) ==
            IF etd_str = <<>> THEN <<>>
            ELSE in_range(etd_str, strptime(etd_str, FMT_YMD_SLASH))
    IN  IF row.vessel = "" \/ row.etd = <<>> THEN <<>>
        ELSE dated(safe_date_str(StrVal(row.etd)).s)

RECURSIVE tsl_pdf_rows(_, _, _)
tsl_pdf_rows(rows, start_dt, end_dt) ==
    IF rows = <<>> THEN <<>>
    ELSE tsl_pdf_row(Head(rows), start_dt, end_dt)
         \o tsl_pdf_rows(Tail(rows), start_dt, end_dt)

RECURSIVE tsl_sheets(_, _, _, _)
tsl_sheets(kind, sheets, start_dt, end_dt) ==
    IF sheets = <<>> THEN <<>>
    ELSE (IF kind = "xlsx"
          THEN parse_tsl_sheet(Head(sheets), start_dt, end_dt)
          ELSE tsl_pdf_rows(Head(sheets).rows, start_dt, end_dt))
         \o tsl_sheets(kind, Tail(sheets), start_dt, end_dt)

\* kind is "xlsx" (also .xls), "pdf", or "other" (unsupported: a warning);
\* file.readable = FALSE: load_workbook / pdfplumber.open raises
parse_tsl(file, start_dt, end_dt) ==
    IF file.kind \notin {"xlsx", "pdf"} THEN <<>>
    ELSE IF ~file.readable THEN <<>>
    ELSE tsl_sheets(file.kind, file.sheets, start_dt, end_dt)

(***************************************************************************)
(* The scrapers.  What the browser shows is the input `web`: whether a     *)
(* driver started and, per destination, whether the page raised before its *)
(* results were read, and the rows / blocks it showed.                     *)
(***************************************************************************)
\* a target-month test that compares the month only
out_of_month_any_year(etd_str, year, month) ==
    LET other(t) == t[2] # month
        outside(p) == p.ok /\ other(ord2ymd(p.ord))
    IN  outside(strptime(etd_str, FMT_YMD_SLASH))

\* the target-month test shared by the scrapers: TRUE when the ETD parses
\* and lies outside the requested month
out_of_month(etd_str, year, month) ==
    LET other(t) == t[1] # year \/ t[2] # month
        outside(p) == p.ok /\ other(ord2ymd(p.ord))
    IN  outside(strptime(etd_str, FMT_YMD_SLASH))

unparseable(etd_str) == ~strptime(etd_str, FMT_YMD_SLASH).ok

\* re.match(r"^\d+$", s)
bare_int(s) == s # <<>> /\ AllDigits(s)

W_DAYS_CAP == <<"D", "a", "y", "s">>

\* tt_str.split()[0]
first_token(s) ==
    LET token(t) ==
            SubSeq(t, 1,
                   IF \E i \in 1..Len(t) : IsSpace(t[i])
                   THEN (CHOOSE i \in 1..Len(t) :
                             IsSpace(t[i]) /\ \A j \in 1..(i - 1) : ~IsSpace(t[j])) - 1
                   ELSE Len(t))
    IN  token(strip(s))

ial_tt(tt_raw) ==
    LET suffixed(tt) ==
            IF tt # <<>> /\ bare_int(first_token(tt)) /\ ~has_sub(lower(tt), W_DAY)
            THEN tt \o <<" ">> \o W_DAYS_CAP
            ELSE tt
    IN  suffixed(strip(tt_raw))

\* re.match(r"^\d+$", tt.strip()) then f"{tt} Days"
scrape_tt(tt) == IF tt # <<>> /\ bare_int(strip(tt)) THEN tt \o <<" ">> \o W_DAYS_CAP ELSE tt

\* ---- IAL ----
ial_row(row, pod, year, month) ==
    LET dated(etd_str) ==
            IF out_of_month(etd_str, year, month) THEN <<>>
            ELSE <<Row("HAIPHONG", pod, row.vessel, row.voyage, etd_str,
                       safe_date_str(StrVal(row.eta)).s, ial_tt(row.tt), <<>>, <<>>)>>
    IN  IF row.vessel = "" \/ row.etd = <<>> THEN <<>>
        ELSE dated(safe_date_str(StrVal(row.etd)).s)

RECURSIVE ial_rows(_, _, _, _)
ial_rows(rows, pod, year, month) ==
    IF rows = <<>> THEN <<>>
    ELSE ial_row(Head(rows), pod, year, month)
         \o ial_rows(Tail(rows), pod, year, month)

RECURSIVE ial_pods(_, _, _, _)
ial_pods(pods, web, year, month) ==
    IF pods = <<>> THEN <<>>
    ELSE LET page(pod, pg) ==
                 IF pg.error THEN <<>> ELSE ial_rows(pg.table, pod, year, month)
         IN  page(Head(pods), web.pages[Head(pods)])
             \o ial_pods(Tail(pods), web, year, month)

scrape_ial(year, month, pods, web) ==
    IF ~web.driver THEN <<>> ELSE ial_pods(pods, web, year, month)

\* ---- KMTC ----
kmtc_dup(rows, vessel, voyage, pod) ==
    \E i \in 1..Len(rows) :
        rows[i].vessel = vessel /\ rows[i].voyage = voyage /\ rows[i].pod = pod

\* one row of the listing table, appended to rows unless skipped
kmtc_table_row(rows, row, pod, year, month) ==
    LET dated(etd_str) ==
            IF row.vessel = "" \/ etd_str = <<>> THEN rows
            ELSE IF out_of_month(etd_str, year, month) THEN rows
            ELSE IF kmtc_dup(rows, row.vessel, row.voyage, pod) THEN rows
            ELSE Append(rows, Row("HAIPHONG", pod, row.vessel, row.voyage, etd_str,
                                  safe_date_str(StrVal(row.eta)).s,
                                  scrape_tt(row.tt), row.cy, row.si))
    IN  dated(safe_date_str(StrVal(row.etd)).s)

RECURSIVE extract_kmtc_table(_, _, _, _, _)
extract_kmtc_table(rows, table, pod, year, month) ==
    IF table = <<>> THEN rows
    ELSE extract_kmtc_table(kmtc_table_row(rows, Head(table), pod, year, month),
                            Tail(table), pod, year, month)

\* one dated block of the calendar text: y, mo, d are the integers of the
\* date line, vessel and voyage the lines recognised after it
kmtc_calendar_block(rows, b, pod, year, month) ==
    LET dup(etd_str) ==
            \E i \in 1..Len(rows) :
                rows[i].vessel = b.vessel /\ rows[i].etd = etd_str
                /\ rows[i].pod = pod
        dated(etd_str) ==
            IF b.vessel = "" THEN rows
            ELSE IF dup(etd_str) THEN rows
            ELSE Append(rows, Row("HAIPHONG", pod, b.vessel, b.voyage, etd_str,
                                  <<>>, <<>>, <<>>, <<>>))
    IN  IF b.y # year \/ b.mo # month THEN rows
        ELSE dated(Pad(b.y, 4) \o <<"/">> \o Pad(b.mo, 2) \o <<"/">> \o Pad(b.d, 2))

RECURSIVE parse_kmtc_calendar(_, _, _, _, _)
parse_kmtc_calendar(rows, blocks, pod, year, month) ==
    IF blocks = <<>> THEN rows
    ELSE parse_kmtc_calendar(kmtc_calendar_block(rows, Head(blocks), pod, year, month),
                             Tail(blocks), pod, year, month)

\* one detail page: the labelled values found on it
extract_kmtc_detail(rows, d, pod, year, month) ==
    LET dated(etd_str) ==
            IF etd_str = <<>> THEN rows
            ELSE IF unparseable(etd_str) THEN rows
            ELSE IF out_of_month(etd_str, year, month) THEN rows
            ELSE IF kmtc_dup(rows, d.vessel, d.voyage, pod) THEN rows
            ELSE Append(rows, Row("HAIPHONG", pod, d.vessel, d.voyage, etd_str,
                                  safe_date_str(StrVal(d.eta)).s, scrape_tt(d.tt),
                                  d.cy, d.si))
    IN  IF d.vessel = "" \/ d.etd = <<>> THEN rows
        ELSE dated(safe_date_str(StrVal(d.etd)).s)

RECURSIVE kmtc_details(_, _, _, _, _)
kmtc_details(rows, ds, pod, year, month) ==
    IF ds = <<>> THEN rows
    ELSE kmtc_details(extract_kmtc_detail(rows, Head(ds), pod, year, month),
                      Tail(ds), pod, year, month)

RECURSIVE kmtc_pods(_, _, _, _, _)
kmtc_pods(rows, pods, web, year, month) ==
    IF pods = <<>> THEN rows
    ELSE LET page(pod, pg) ==
                 IF pg.error THEN rows
                 ELSE kmtc_details(
                          parse_kmtc_calendar(
                              extract_kmtc_table(rows, pg.table, pod, year, month),
                              pg.calendar, pod, year, month),
                          pg.details, pod, year, month)
         IN  kmtc_pods(page(Head(pods), web.pages[Head(pods)]),
                       Tail(pods), web, year, month)

scrape_kmtc(year, month, pods, web) ==
    IF ~web.driver THEN <<>> ELSE kmtc_pods(<<>>, pods, web, year, month)

\* ---- YML ----
yml_table_row(rows, row, pod, year, month) ==
    LET dated(etd_str) ==
            IF row.vessel = "" \/ etd_str = <<>> THEN rows
            ELSE IF out_of_month(etd_str, year, month) THEN rows
            ELSE Append(rows, Row("HAIPHONG", pod, row.vessel, row.voyage, etd_str,
                                  safe_date_str(StrVal(row.eta)).s,
                                  scrape_tt(row.tt), row.cy, row.si))
    IN  dated(safe_date_str(StrVal(row.etd)).s)

RECURSIVE yml_table(_, _, _, _, _)
yml_table(rows, table, pod, year, month) ==
    IF table = <<>> THEN rows
    ELSE yml_table(yml_table_row(rows, Head(table), pod, year, month),
                   Tail(table), pod, year, month)

\* one result card: the first two dates, the vessel and voyage words and the
\* labelled values that the regular expressions found in its text
parse_yml_card(rows, c, pod, year, month) ==
    LET dated(etd_str) ==
            IF c.vessel = "" \/ etd_str = <<>> THEN rows
            ELSE IF unparseable(etd_str) THEN rows
            ELSE IF out_of_month(etd_str, year, month) THEN rows
            ELSE IF kmtc_dup(rows, c.vessel, c.voyage, pod) THEN rows
            ELSE Append(rows, Row("HAIPHONG", pod, c.vessel, c.voyage, etd_str,
                                  safe_date_str(StrVal(c.eta)).s, c.tt, c.cy, c.si))
    IN  IF c.etd = <<>> THEN rows
        ELSE dated(safe_date_str(StrVal(c.etd)).s)

RECURSIVE yml_cards(_, _, _, _, _)
yml_cards(rows, cs, pod, year, month) ==
    IF cs = <<>> THEN rows
    ELSE yml_cards(parse_yml_card(rows, Head(cs), pod, year, month),
                   Tail(cs), pod, year, month)

RECURSIVE yml_pods(_, _, _, _, _)
yml_pods(rows, pods, web, year, month) ==
    IF pods = <<>> THEN rows
    ELSE LET page(pod, pg) ==
                 IF pg.error THEN rows
                 ELSE yml_cards(yml_table(rows, pg.table, pod, year, month),
                                pg.cards, pod, year, month)
         IN  yml_pods(page(Head(pods), web.pages[Head(pods)]),
                      Tail(pods), web, year, month)

scrape_yml(year, month, pods, web) ==
    IF ~web.driver THEN <<>> ELSE yml_pods(<<>>, pods, web, year, month)

(***************************************************************************)
(* Column resolution.  A header row is the sequence of its cell texts; a   *)
(* resolver gives, per field, the position of the header it takes, 0 for   *)
(* None.  Header texts are ASCII, so the Chinese keywords of the IAL       *)
(* resolver, which never match one, are left out.                          *)
(***************************************************************************)
\* str.lower() / str.upper() of each header cell
str_lower(s) == str_of(lower(chars(s)))

headers_lower(headers) == [j \in 1..Len(headers) |-> str_lower(headers[j])]

row_upper(row) == [j \in 1..Len(row) |-> upper(row[j])]

\* the least element of a set of positions, 0 when there is none
first_of(hits) == IF hits = {} THEN 0 ELSE CHOOSE j \in hits : \A j2 \in hits : j <= j2

\* fci(kws), find_col(keywords), find_col_pdf(kws): the first header that
\* contains one of the keywords
fci(headers, kws) ==
    first_of({j \in 1..Len(headers) :
                 \E k \in 1..Len(kws) : has_sub(headers[j], kws[k])})

IAL_KEYWORDS ==
    [vessel |-> <<"vessel", "ship">>, voyage |-> <<"voyage">>,
     etd |-> <<"etd", "departure">>, eta |-> <<"eta", "arrival">>,
     tt |-> <<"transit", "t/t">>]

KMTC_KEYWORDS ==
    [vessel |-> <<"vessel", "ship">>, voyage |-> <<"voyage">>,
     etd |-> <<"departure", "etd", "date of dep">>,
     eta |-> <<"arrival", "eta", "date of arr">>,
     tt |-> <<"t/t", "transit", "total t">>,
     cy |-> <<"cy cut", "cy">>, si |-> <<"vgm", "si cut", "si clos">>]

YML_KEYWORDS ==
    [vessel |-> <<"vessel">>, voyage |-> <<"voyage">>,
     etd |-> <<"etd", "departure">>, eta |-> <<"eta", "arrival">>,
     tt |-> <<"t/t", "transit">>, cy |-> <<"cy">>, si |-> <<"si cut", "si ">>]

TSL_KEYWORDS ==
    [service |-> <<"SERVICE">>, vessel |-> <<"VESSEL">>, voyage |-> <<"VOYAGE">>,
     etd |-> <<"ETD">>, eta |-> <<"ETA">>]

\* the if / elif chain of parse_cnc over one header of a PDF table, in its
\* order: the keyword tested and the field it assigns
COL_MAP_PDF ==
    <<[kw |-> "origin", field |-> "pol"], [kw |-> "destination", field |-> "pod"],
      [kw |-> "vessel name", field |-> "vessel"], [kw |-> "voyage", field |-> "voyage"],
      [kw |-> "departure", field |-> "etd"], [kw |-> "arrival date", field |-> "eta"],
      [kw |-> "transit", field |-> "tt"], [kw |-> "port cut", field |-> "cy"],
      [kw |-> "si cut", field |-> "si"]>>

\* the first branch of the chain a header takes, 0 when it takes none
pdf_branch(hl) == first_of({b \in 1..Len(COL_MAP_PDF) : has_sub(hl, COL_MAP_PDF[b].kw)})

\* col_map_pdf after the loop over the headers: a later header of a field
\* overwrites an earlier one
col_map_pdf(header) ==
    LET takes(j, f) ==
            /\ pdf_branch(str_lower(header[j])) # 0
            /\ COL_MAP_PDF[pdf_branch(str_lower(header[j]))].field = f
        last_of(hits) ==
            IF hits = {} THEN 0 ELSE CHOOSE j \in hits : \A j2 \in hits : j2 <= j
    IN  [f \in {COL_MAP_PDF[b].field : b \in 1..Len(COL_MAP_PDF)} |->
            last_of({j \in 1..Len(header) : takes(j, f)})]

\* the column positions a resolver gives for a header row
resolve(resolver, headers) ==
    CASE resolver = "IAL" ->
           [f \in DOMAIN IAL_KEYWORDS |-> fci(headers_lower(headers), IAL_KEYWORDS[f])]
      [] resolver = "KMTC" ->
           [f \in DOMAIN KMTC_KEYWORDS |-> fci(headers_lower(headers), KMTC_KEYWORDS[f])]
      [] resolver = "YML" ->
           [f \in DOMAIN YML_KEYWORDS |-> fci(headers_lower(headers), YML_KEYWORDS[f])]
      [] resolver = "TSL" ->
           [f \in DOMAIN TSL_KEYWORDS |-> fci(row_upper(headers), TSL_KEYWORDS[f])]
      [] resolver = "CNC" -> col_map_pdf(headers)

(***************************************************************************)
(* _parse_tsl_sheet on the cells of a worksheet: data is the list of its   *)
(* rows, a row the list of its cell texts, each str(c).strip() and "" for  *)
(* an empty cell.  The rows of a worksheet have the same length.           *)
(***************************************************************************)
\* " ".join(row)
RECURSIVE join_row(_)
join_row(row) ==
    IF row = <<>> THEN ""
    ELSE IF Len(row) = 1 THEN row[1]
    ELSE row[1] \o " " \o join_row(Tail(row))

\* any(row)
any_cell(row) == \E j \in 1..Len(row) : row[j] # ""

\* the main header row: the first row with VESSEL and VOYAGE, else the first
\* one with ETD and ETA; 0 when there is none
tsl_header_idx(data) ==
    LET named(ru) ==
            /\ (\E j \in 1..Len(ru) : ru[j] = "VESSEL")
                \/ has_sub(join_row(ru), "VESSEL NAME")
            /\ \E j \in 1..Len(ru) : has_sub(ru[j], "VOYAGE")
        dated(ru) ==
            /\ \E j \in 1..Len(ru) : has_sub(ru[j], "ETD")
            /\ \E j \in 1..Len(ru) : has_sub(ru[j], "ETA")
        fallback(i) ==
            IF i # 0 THEN i
            ELSE first_of({k \in 1..Len(data) : dated(row_upper(data[k]))})
    IN  fallback(first_of({k \in 1..Len(data) : named(row_upper(data[k]))}))

\* pod_cols: the column of each POD named in the header; a header cell
\* counts for the first POD of POD_LIST it contains, and the last such cell
\* of a POD is the one kept
tsl_pod_cols(header) ==
    LET pod_of(h) == first_of({i \in 1..Len(POD_LIST) : has_sub(h, POD_LIST[i])})
        cols(pod) == {j \in 1..Len(header) :
                        pod_of(header[j]) # 0 /\ POD_LIST[pod_of(header[j])] = pod}
    IN  [pod \in {q \in SeqToSet(POD_LIST) : cols(q) # {}} |->
            CHOOSE j \in cols(pod) : \A j2 \in cols(pod) : j2 <= j]

IsWordChar(c) == IsUpper(c) \/ IsLower(c) \/ IsDigit(c) \/ c = "_"

\* re.search(r"\d{1,2}:\d{2}", raw): the text of the leftmost match, or ""
time_match(cs) ==
    LET two(i) == /\ i + 4 <= Len(cs)
                  /\ IsDigit(cs[i]) /\ IsDigit(cs[i + 1]) /\ cs[i + 2] = ":"
                  /\ IsDigit(cs[i + 3]) /\ IsDigit(cs[i + 4])
        one(i) == /\ i + 3 <= Len(cs)
                  /\ IsDigit(cs[i]) /\ cs[i + 1] = ":"
                  /\ IsDigit(cs[i + 2]) /\ IsDigit(cs[i + 3])
        found(i) == IF i = 0 THEN <<>>
                    ELSE IF two(i) THEN SubSeq(cs, i, i + 4)
                    ELSE SubSeq(cs, i, i + 3)
    IN  found(first_of({i \in 1..Len(cs) : two(i) \/ one(i)}))

\* re.search(r"\b(MON|TUE|WED|THU|FRI|SAT|SUN)\b", raw): the leftmost day
\* name that stands as a word, or ""
day_match(cs) ==
    LET word(i) == /\ i + 2 <= Len(cs)
                   /\ str_of(SubSeq(cs, i, i + 2)) \in DayNames
                   /\ i = 1 \/ ~IsWordChar(cs[i - 1])
                   /\ i + 2 = Len(cs) \/ ~IsWordChar(cs[i + 3])
        found(i) == IF i = 0 THEN "" ELSE str_of(SubSeq(cs, i, i + 2))
    IN  found(first_of({i \in 1..Len(cs) : word(i)}))

\* _parse_time_day(raw): (time, day) of a cut-off cell
parse_time_day(raw) ==
    LET pair(cs) == [t |-> time_match(cs), d |-> day_match(cs)]
    IN  pair(chars(upper(raw)))

\* the number of rows after the marker row the scan of the rules stops at
RULE_SCAN == 30

\* the columns of the reference table, from its marker row
rule_cols(ru) ==
    LET nospace(c) == LET solid(x) == x # " " IN str_of(SelectSeq(chars(c), solid))
        or_else(j, k) == IF j # 0 THEN j ELSE k
        svc == first_of({j \in 1..Len(ru) :
                            has_sub(ru[j], "SERVICE") /\ has_sub(ru[j], "NAME")})
        cy  == first_of({j \in 1..Len(ru) :
                            \/ has_sub(ru[j], "CY") /\ has_sub(nospace(ru[j]), "CUT")
                            \/ ru[j] = "CY"})
        si  == first_of({j \in 1..Len(ru) :
                            \/ has_sub(ru[j], "SUBMIT")
                            \/ has_sub(ru[j], "SI") /\ has_sub(ru[j], "VGM")
                            \/ ru[j] = "SI/VGM"})
    IN  [svc |-> or_else(svc, 1),
         cy  |-> or_else(cy, first_of({j \in 1..Len(ru) : has_sub(ru[j], "CY")})),
         si  |-> or_else(si, first_of({j \in 1..Len(ru) :
                                          has_sub(ru[j], "SI") \/ has_sub(ru[j], "VGM")}))]

\* the cell of a row in a column that may be None
cell_at(row, j) == IF j # 0 /\ j <= Len(row) THEN row[j] ELSE ""

\* the loop over the rows after the marker row, m + 1 .. stop: it ends at
\* the first empty row, passes a row without a service name, and a later
\* row of a service replaces the earlier one
rule_rows(data, m, stop, cols) ==
    LET rule(cy, si) ==
            [cy_day |-> cy.d, cy_time |-> cy.t, si_day |-> si.d, si_time |-> si.t]
        svc_name(k) == upper(cell_at(data[k], cols.svc))
        table(rows) ==
            [n \in {svc_name(k) : k \in rows} \ {""} |->
                LET last_row(ks) ==
                        rule(parse_time_day(cell_at(data[ks], cols.cy)),
                             parse_time_day(cell_at(data[ks], cols.si)))
                IN  last_row(CHOOSE k \in rows :
                                 /\ svc_name(k) = n
                                 /\ \A k2 \in rows : svc_name(k2) = n => k2 <= k)]
        until(empty) == table((m + 1)..(IF empty = 0 THEN stop ELSE empty - 1))
    IN  until(first_of({k \in (m + 1)..stop : ~any_cell(data[k])}))

\* service_rules: the table read below the first row that has SERVICE NAME
service_rules(data) ==
    LET read(m) ==
            IF m = 0 THEN <<>>
            ELSE rule_rows(data, m,
                           IF m + RULE_SCAN - 1 < Len(data)
                           THEN m + RULE_SCAN - 1 ELSE Len(data),
                           rule_cols(row_upper(data[m])))
    IN  read(first_of({k \in 1..Len(data) :
                          has_sub(join_row(row_upper(data[k])), "SERVICE NAME")}))

\* re.sub(r"\(.*?\)", "", eta_raw): each bracket with what it holds removed
RECURSIVE strip_brackets(_)
strip_brackets(cs) ==
    LET open == first_of({i \in 1..Len(cs) : cs[i] = "("})
        close(i) == first_of({j \in (i + 1)..Len(cs) : cs[j] = ")"})
        cut(i, j) ==
            IF i = 0 \/ j = 0 THEN cs
            ELSE SubSeq(cs, 1, i - 1) \o strip_brackets(SubSeq(cs, j + 1, Len(cs)))
    IN  cut(open, IF open = 0 THEN 0 ELSE close(open))

\* re.search(r"\((\d+)\s*days?\)", eta_raw, re.IGNORECASE): the digits of
\* the leftmost match, or ""
tt_match(cs) ==
    LET digits_end(i) ==
            first_of({j \in i..(Len(cs) + 1) : j > Len(cs) \/ ~IsDigit(cs[j])})
        blanks_end(i) ==
            first_of({j \in i..(Len(cs) + 1) : j > Len(cs) \/ ~IsSpace(cs[j])})
        unit(i) ==
            \/ i + 4 <= Len(cs)
                /\ lower(SubSeq(cs, i, i + 4)) = <<"d", "a", "y", "s", ")">>
            \/ i + 3 <= Len(cs)
                /\ lower(SubSeq(cs, i, i + 3)) = <<"d", "a", "y", ")">>
        hit(i) == /\ cs[i] = "("
                  /\ digits_end(i + 1) > i + 1
                  /\ unit(blanks_end(digits_end(i + 1)))
        found(i) == IF i = 0 THEN <<>> ELSE SubSeq(cs, i + 1, digits_end(i + 1) - 1)
    IN  found(first_of({i \in 1..Len(cs) : hit(i)}))

\* the fields the row loop reads from a data row, with the PODs whose
\* column has a text (without POD columns: the PODs named in the row)
tsl_cells_row(row, cols, pod_cols) ==
    [vessel   |-> cell_at(row, cols.vessel),
     voyage   |-> cell_at(row, cols.voyage),
     etd      |-> chars(cell_at(row, cols.etd)),
     eta      |-> strip(strip_brackets(chars(cell_at(row, cols.eta)))),
     eta_note |-> tt_match(chars(cell_at(row, cols.eta))),
     service  |-> cell_at(row, cols.service),
     pods     |-> IF DOMAIN pod_cols # {}
                  THEN {pod \in DOMAIN pod_cols :
                           strip(chars(cell_at(row, pod_cols[pod]))) # <<>>}
                  ELSE {pod \in SeqToSet(POD_LIST) :
                           has_sub(upper(join_row(row)), pod)}]

\* _parse_tsl_sheet(ws, out_rows, start_dt, end_dt): the records appended,
\* the rule table it built, and whether it raised.  Without an ETA column
\* c_eta is None and "c_eta < len(row)" raises TypeError at the first data
\* row that is not empty.
tsl_cells_sheet(data, start_dt, end_dt) ==
    LET none == [raised |-> FALSE, rows |-> <<>>, rules |-> <<>>]
        full(row) == any_cell(row)
        loop(rows, cols, pod_cols, rules) ==
            IF cols.eta = 0 /\ rows # <<>>
            THEN [raised |-> TRUE, rows |-> <<>>, rules |-> rules]
            ELSE [raised |-> FALSE,
                  rows   |-> tsl_sheet_rows(
                                 [n \in 1..Len(rows) |->
                                     tsl_cells_row(rows[n], cols, pod_cols)],
                                 rules, start_dt, end_dt),
                  rules  |-> rules]
        columns(i, header, cols) ==
            IF cols.vessel = 0 \/ cols.voyage = 0 \/ cols.etd = 0 THEN none
            ELSE loop(SelectSeq(SubSeq(data, i + 1, Len(data)), full), cols,
                      tsl_pod_cols(header), service_rules(data))
        headed(i) ==
            IF i = 0 THEN none
            ELSE columns(i, row_upper(data[i]), resolve("TSL", data[i]))
    IN  headed(tsl_header_idx(data))

(***************************************************************************)
(* The session store                                                       *)
(***************************************************************************)
Carriers == SeqToSet(CARRIER_LIST)

EmptyStore == [c \in Carriers |-> <<>>]

\* variant: the frame becomes the whole store
store_data_alone(store, carrier, df) ==
    [c \in DOMAIN store |->
        IF c = carrier THEN [i \in 1..Len(df) |-> WithCarrier(df[i], carrier)]
        ELSE <<>>]

\* variant: the frame appended to the carrier's slot
store_data_appending(store, carrier, df) ==
    [store EXCEPT ![carrier] =
        @ \o [i \in 1..Len(df) |-> WithCarrier(df[i], carrier)]]

\* store_data(carrier, df): the new value of data_store
store_data(store, carrier, df) ==
    [store EXCEPT ![carrier] = [i \in 1..Len(df) |-> WithCarrier(df[i], carrier)]]

RECURSIVE frames_from(_, _)
frames_from(store, i) ==
    IF i > Len(CARRIER_LIST) THEN <<>>
    ELSE store[CARRIER_LIST[i]] \o frames_from(store, i + 1)

get_all_data(store) == frames_from(store, 1)

\* merged[merged["POD"].isin(sel_pods)]
filter_pods(df, sel_pods) ==
    LET keep(r) == r.pod \in SeqToSet(sel_pods) IN SelectSeq(df, keep)

(***************************************************************************)
(* The handlers of main()                                                  *)
(***************************************************************************)
Done(op, carrier, stored, df, prev) ==
    [op |-> op, carrier |-> carrier, stored |-> stored, df |-> df, prev |-> prev]

\* variant: the loop over the files left at the first empty frame
non_empty_frames_until_empty(frames) ==
    LET before(empties) ==
            SubSeq(frames, 1,
                   IF empties = {} THEN Len(frames)
                   ELSE (CHOOSE i \in empties : \A j \in empties : i <= j) - 1)
    IN  before({i \in 1..Len(frames) : frames[i] = <<>>})

\* the loop over the uploaded files: if not df.empty: all.append(df)
non_empty_frames(frames) ==
    LET full(df) == df # <<>> IN SelectSeq(frames, full)

\* "Parse CNC Files" / "Parse TSL Files": concat the non-empty frames, keep
\* the selected PODs, store; nothing is stored when every frame is empty
Upload(carrier, frames, sel_pods) ==
    LET store(merged) ==
            /\ data_store' = store_data(data_store, carrier, merged)
            /\ last' = Done("upload", carrier, TRUE, merged, data_store[carrier])
        concat(all) ==
            IF all # <<>>
            THEN store(filter_pods(Concat(all), sel_pods))
            ELSE /\ data_store' = data_store
                 /\ last' = Done("upload", carrier, FALSE, <<>>, data_store[carrier])
    IN  /\ pc.i = 0
        /\ concat(non_empty_frames(frames))
        /\ pc' = pc

\* frames[i] is parse_cnc / parse_tsl of the i-th uploaded file
ParseCNCFiles(frames, sel_pods) ==
    /\ frames # <<>>
    /\ Upload("CNC", frames, sel_pods)

ParseTSLFiles(frames, sel_pods) ==
    /\ frames # <<>>
    /\ Upload("TSL", frames, sel_pods)

\* variant: the frame stored whatever it holds
scrape_stored_always(df) == TRUE

\* if not df.empty
scrape_stored(df) == df # <<>>

\* what a scrape button does with the DataFrame of its scraper
ScrapeStore(carrier, df) ==
    IF scrape_stored(df)
    THEN /\ data_store' = store_data(data_store, carrier, df)
         /\ last' = Done("scrape", carrier, TRUE, df, data_store[carrier])
    ELSE /\ data_store' = data_store
         /\ last' = Done("scrape", carrier, FALSE, <<>>, data_store[carrier])

scrape_fn(carrier, year, month, pods, web) ==
    CASE carrier = "IAL"  -> scrape_ial(year, month, pods, web)
      [] carrier = "KMTC" -> scrape_kmtc(year, month, pods, web)
      [] carrier = "YML"  -> scrape_yml(year, month, pods, web)

\* "Scrape IAL" / "Scrape KMTC" / "Scrape YML", shown only with a POD
\* selected; df is the DataFrame its scraper returned
Scrape(carrier, sel_pods, df) ==
    /\ pc.i = 0
    /\ sel_pods # <<>>
    /\ ScrapeStore(carrier, df)
    /\ pc' = pc

carriers_web == <<"IAL", "KMTC", "YML">>

\* "Scrape IAL + KMTC + YML": the button starts the loop over carriers_web
Idle == [i |-> 0, sel_pods |-> <<>>]

ScrapeAllStart(sel_pods) ==
    /\ pc.i = 0
    /\ sel_pods # <<>>
    /\ pc' = [i |-> 1, sel_pods |-> sel_pods]
    /\ UNCHANGED <<data_store, last>>

\* one iteration of that loop; df is what scrape_fn returned for the carrier
ScrapeAllStep(df) ==
    /\ pc.i > 0
    /\ ScrapeStore(carriers_web[pc.i], df)
    /\ pc' = IF pc.i = Len(carriers_web) THEN Idle ELSE [pc EXCEPT !.i = pc.i + 1]

\* "Clear All Data"
ClearAll ==
    /\ pc.i = 0
    /\ data_store' = EmptyStore
    /\ last' = Done("clear", "", FALSE, <<>>, <<>>)
    /\ pc' = pc

(***************************************************************************)
(* export_to_excel: the workbook is the sequence of its sheets, a sheet    *)
(* its title, its header row and its data rows                             *)
(***************************************************************************)
\* the field of a record that holds a column of the DataFrame
COL_FIELD ==
    [c \in SeqToSet(OUTPUT_COLS) \cup {"Carrier"} |->
        CASE c = "POL" -> "pol" [] c = "POD" -> "pod" [] c = "Vessel" -> "vessel"
          [] c = "Voyage" -> "voyage" [] c = "ETD" -> "etd" [] c = "ETA" -> "eta"
          [] c = "T/T Time" -> "tt" [] c = "CY Cut-off" -> "cy"
          [] c = "SI Cut-off" -> "si" [] c = "Carrier" -> "carrier"]

\* row.get(col_name, ""), written as str(val) if val else ""
row_get(r, col_name) == r[COL_FIELD[col_name]]

\* str.title(): a letter is upper case after a non-letter, lower case after
\* a letter
title(s) ==
    LET cased(cs) ==
            [i \in 1..Len(cs) |->
                IF i > 1 /\ (IsUpper(cs[i - 1]) \/ IsLower(cs[i - 1]))
                THEN lower_char(cs[i]) ELSE upper_char(cs[i])]
    IN  str_of(cased(chars(s)))

\* all_data[all_data["POD"] == pod], keeping only the first such record
pod_df_first_only(all_data, pod) ==
    LET same(r) == r.pod = pod
        first(df) == IF df = <<>> THEN <<>> ELSE <<Head(df)>>
    IN  first(SelectSeq(all_data, same))

\* all_data[all_data["POD"] == pod]
pod_df(all_data, pod) ==
    LET same(r) == r.pod = pod IN SelectSeq(all_data, same)

\* pd.to_datetime(ETD, format="%Y/%m/%d", errors="coerce"): NaT when the
\* text is no such date
etd_sort(r) ==
    LET key(p) == [nat |-> ~p.ok, ord |-> p.ord]
    IN  key(strptime(r.etd, FMT_YMD_SLASH))

\* the order of a sort with the NaT keys first
sort_le_nat_first(a, b) == a.nat \/ (~b.nat /\ a.ord <= b.ord)

\* the order of sort_values: ascending, NaT last
sort_le(a, b) == b.nat \/ (~a.nat /\ a.ord <= b.ord)

\* sort_values("_etd_sort"): records of equal key keep their order
RECURSIVE sort_values(_)
sort_values(df) ==
    IF df = <<>> THEN <<>>
    ELSE LET insert(sorted, r, k) ==
                 SubSeq(sorted, 1, k) \o <<r>> \o SubSeq(sorted, k + 1, Len(sorted))
             place(sorted, r) ==
                 insert(sorted, r,
                        Cardinality({i \in 1..Len(sorted) :
                                        sort_le(etd_sort(sorted[i]), etd_sort(r))}))
         IN  place(sort_values(SubSeq(df, 1, Len(df) - 1)), df[Len(df)])

\* the header row and the data rows written to a POD sheet
pod_sheet(pod, df) ==
    [title  |-> title(pod),
     header |-> OUTPUT_COLS,
     rows   |-> [i \in 1..Len(df) |->
                    [j \in 1..Len(OUTPUT_COLS) |-> row_get(df[i], OUTPUT_COLS[j])]]]

\* wb.create_sheet(title), the sheet put before the others
create_sheet_first(wb, ws) == <<ws>> \o wb

\* wb.create_sheet(title): the sheet comes after the existing ones
create_sheet(wb, ws) == Append(wb, ws)

\* wb.create_sheet(title, index=...)
create_sheet_at(wb, ws, index) ==
    SubSeq(wb, 1, index) \o <<ws>> \o SubSeq(wb, index + 1, Len(wb))

\* for pod in POD_LIST: ... continue when the POD has no record
RECURSIVE pod_sheets(_, _, _)
pod_sheets(wb, i, all_data) ==
    IF i > Len(POD_LIST) THEN wb
    ELSE LET sheet(df) ==
                 IF df = <<>> THEN wb
                 ELSE create_sheet(wb, pod_sheet(POD_LIST[i], sort_values(df)))
         IN  pod_sheets(sheet(pod_df(all_data, POD_LIST[i])), i + 1, all_data)

\* the Summary sheet: a line per POD of POD_LIST with the number of its
\* records and the set of their carriers
summary_sheet(all_data) ==
    [title  |-> "Summary",
     header |-> <<"POD", "Count", "Carriers">>,
     rows   |-> [i \in 1..Len(POD_LIST) |->
                    [pod      |-> POD_LIST[i],
                     count    |-> Len(pod_df(all_data, POD_LIST[i])),
                     carriers |-> {r.carrier :
                                     r \in SeqToSet(pod_df(all_data, POD_LIST[i]))}]]]

export_to_excel(all_data) ==
    create_sheet_at(pod_sheets(<<>>, 1, all_data), summary_sheet(all_data), 0)

\* "Generate Excel Report", shown only when there is data
Export ==
    /\ pc.i = 0
    /\ get_all_data(data_store) # <<>>
    /\ ret' = [done |-> TRUE, book |-> export_to_excel(get_all_data(data_store))]
    /\ last' = Done("export", "", FALSE, <<>>, <<>>)
    /\ UNCHANGED <<data_store, pc>>

(***************************************************************************)
(* Inputs: what the user uploads and what the sites show                   *)
(***************************************************************************)
\* the date n written in a format, zero padded
Render(n, fmt) ==
    LET f(t, dir) == CASE dir = "Y" -> Pad(t[1], 4)
                       [] dir = "m" -> Pad(t[2], 2)
                       [] dir = "d" -> Pad(t[3], 2)
        text(t) == f(t, fmt.dirs[1]) \o <<fmt.sep>> \o f(t, fmt.dirs[2])
                   \o <<fmt.sep>> \o f(t, fmt.dirs[3])
    IN  text(ord2ymd(n))

TBA == <<"T", "B", "A">>

TextCell(s) == [nan |-> FALSE, s |-> s]
NanText     == [nan |-> TRUE, s |-> ""]
NanDate     == [nan |-> TRUE, s |-> <<>>]

\* the month selected in the sidebar
SelYear  == 2026
SelMonth == 3

InMonth1 == ymd2ord(2026, 3, 14)
InMonth2 == ymd2ord(2026, 3, 21)
NextMonth == ymd2ord(2026, 4, 2)
\* the day of InMonth1 a year before
LastYear == ymd2ord(2025, 3, 14)

\* the sidebar's POD checkboxes, in POD_LIST order
SelPodsChoices == {POD_LIST, <<"HONG KONG">>}

RECURSIVE SeqsUpTo(_, _)
SeqsUpTo(S, n) ==
    IF n = 0 THEN {<<>>}
    ELSE LET longer(shorter) ==
                 shorter \cup {Append(q, x) : q \in {t \in shorter : Len(t) = n - 1},
                                              x \in S}
         IN  longer(SeqsUpTo(S, n - 1))

Batches(Files) == SeqsUpTo(Files, MaxFiles) \ {<<>>}

CncSrcRow(pol, pod, vessel, etd, cy) ==
    [pol |-> pol, pod |-> pod, vessel |-> vessel, voyage |-> "001",
     etd |-> etd, eta |-> TextCell(<<>>), tt |-> <<"3">>, cy |-> cy, si |-> <<>>]

CncFile(kind, rows) == [kind |-> kind, readable |-> TRUE, rows |-> rows]

UnreadableCnc(kind) == [kind |-> kind, readable |-> FALSE, rows |-> <<>>]

CutA  == Render(ymd2ord(2026, 3, 12), FMT_YMD_SLASH)
CutA2 == Render(ymd2ord(2026, 3, 13), FMT_YMD_SLASH)

\* the uploads of the dashboard model: a sailing, a PDF table with the same
\* sailing under a later cut-off, a row without a vessel and a sailing for a
\* port that is not in POD_LIST, and a file that cannot be read
AppCncFiles ==
    {CncFile("csv", <<CncSrcRow("HAIPHONG", "Hong Kong", TextCell("V1"),
                                TextCell(Render(InMonth1, FMT_YMD_DASH)), CutA)>>),
     CncFile("pdf", <<CncSrcRow("HAIPHONG", "HONG KONG", TextCell("V1"),
                                TextCell(Render(InMonth1, FMT_YMD_SLASH)), CutA2),
                      CncSrcRow("HAIPHONG", "SHEKOU PORT", TextCell(""),
                                TextCell(Render(InMonth2, FMT_YMD_SLASH)), <<>>),
                      CncSrcRow("HAIPHONG", "SINGAPORE", TextCell("V8"),
                                TextCell(Render(InMonth2, FMT_YMD_SLASH)), <<>>)>>),
     UnreadableCnc("csv")}

TslSrcRow(vessel, etd, service, pods) ==
    [vessel |-> vessel, voyage |-> "T01", etd |-> etd,
     eta |-> <<>>, eta_note |-> <<>>, service |-> service, pods |-> pods]

T1800 == <<"1", "8", ":", "0", "0">>

TslRules ==
    ("SVC1" :> [cy_day |-> "FRI", cy_time |-> T1800, si_day |-> "THU", si_time |-> <<>>])

TslFile(kind, rows) ==
    [kind |-> kind, readable |-> TRUE,
     sheets |-> <<[rows |-> rows, rules |-> TslRules]>>]

UnreadableTsl == [kind |-> "xlsx", readable |-> FALSE, sheets |-> <<>>]

AppTslFiles ==
    {TslFile("xlsx", <<TslSrcRow("V3", Render(InMonth1, FMT_YMD_DASH), "SVC1", {"HONG KONG"}),
                       TslSrcRow("V4", TBA, "SVC1", {"SHEKOU"})>>),
     UnreadableTsl}

WebRow(vessel, voyage, etd) ==
    [vessel |-> vessel, voyage |-> voyage, etd |-> etd, eta |-> <<>>,
     tt |-> <<"3">>, cy |-> <<>>, si |-> <<>>]

Page(table) ==
    [error |-> FALSE, table |-> table, calendar |-> <<>>, details |-> <<>>,
     cards |-> <<>>]

ErrorPage ==
    [error |-> TRUE, table |-> <<>>, calendar |-> <<>>, details |-> <<>>,
     cards |-> <<>>]

PODS == SeqToSet(POD_LIST)

\* a site showing the page for HONG KONG and no results for the other ports
Web(driver, page) ==
    [driver |-> driver,
     pages |-> [p \in PODS |-> IF p = "HONG KONG" THEN page ELSE Page(<<>>)]]

\* what a site can show in the dashboard model: no browser, a failing page,
\* a sailing in the month, only a sailing of the next month
AppWebs ==
    {Web(FALSE, Page(<<>>)),
     Web(TRUE, ErrorPage),
     Web(TRUE, Page(<<WebRow("V5", "W01", Render(InMonth1, FMT_YMD_SLASH))>>)),
     Web(TRUE, Page(<<WebRow("V6", "W02", Render(NextMonth, FMT_YMD_SLASH))>>))}

(***************************************************************************)
(* The dashboard: any sequence of button presses                           *)
(***************************************************************************)
NoCall == [f |-> "none"]
NoRet  == [done |-> FALSE]

Init ==
    /\ data_store = EmptyStore
    /\ last = Done("init", "", FALSE, <<>>, <<>>)
    /\ pc = Idle
    /\ call = NoCall
    /\ ret = NoRet

\* the adapters over the inputs of the dashboard model, tabulated
AppCncFrames == [f \in AppCncFiles |-> parse_cnc(f)]

AppTslFrames ==
    [f \in AppTslFiles |->
        parse_tsl(f, range_start(SelYear, SelMonth), range_end(SelYear, SelMonth))]

AppScraped ==
    [c \in SeqToSet(carriers_web) |->
        [sel_pods \in SelPodsChoices |->
            [web \in AppWebs |-> scrape_fn(c, SelYear, SelMonth, sel_pods, web)]]]

DoParseCNC ==
    /\ \E files \in Batches(AppCncFiles), sel_pods \in SelPodsChoices :
           ParseCNCFiles([i \in 1..Len(files) |-> AppCncFrames[files[i]]], sel_pods)
    /\ UNCHANGED <<call, ret>>

DoParseTSL ==
    /\ \E files \in Batches(AppTslFiles), sel_pods \in SelPodsChoices :
           ParseTSLFiles([i \in 1..Len(files) |-> AppTslFrames[files[i]]], sel_pods)
    /\ UNCHANGED <<call, ret>>

DoScrape ==
    /\ \E carrier \in SeqToSet(carriers_web), sel_pods \in SelPodsChoices,
          web \in AppWebs :
           Scrape(carrier, sel_pods, AppScraped[carrier][sel_pods][web])
    /\ UNCHANGED <<call, ret>>

DoScrapeAllStart ==
    /\ \E sel_pods \in SelPodsChoices : ScrapeAllStart(sel_pods)
    /\ UNCHANGED <<call, ret>>

DoScrapeAllStep ==
    /\ pc.i > 0
    /\ \E web \in AppWebs :
           ScrapeAllStep(AppScraped[carriers_web[pc.i]][pc.sel_pods][web])
    /\ UNCHANGED <<call, ret>>

DoClearAll ==
    /\ ClearAll
    /\ UNCHANGED <<call, ret>>

Next ==
    \/ DoParseCNC
    \/ DoParseTSL
    \/ DoScrape
    \/ DoScrapeAllStart
    \/ DoScrapeAllStep
    \/ DoClearAll

Spec == Init /\ [][Next]_vars

(***************************************************************************)
(* The export: uploads and scrapes for several destinations, in any order, *)
(* and "Generate Excel Report" on what the store then holds.  The workbook *)
(* is on the page until the next button is pressed.                        *)
(***************************************************************************)
ExRow(pod, vessel, etd) ==
    CncSrcRow("HAIPHONG", pod, TextCell(vessel), TextCell(etd), <<>>)

ExCncFiles ==
    {CncFile("csv", <<ExRow("KAOHSIUNG", "V1", Render(InMonth2, FMT_YMD_SLASH)),
                      ExRow("Hong Kong", "V2", Render(InMonth1, FMT_YMD_DASH))>>),
     CncFile("csv", <<ExRow("SHEKOU", "V3", TBA),
                      ExRow("SHEKOU", "V4", Render(InMonth2, FMT_YMD_SLASH)),
                      ExRow("SHEKOU", "V5", Render(InMonth1, FMT_YMD_SLASH)),
                      ExRow("TAICHUNG", "V5", Render(InMonth1, FMT_YMD_SLASH))>>),
     CncFile("csv", <<ExRow("SHEKOU", "V4", Render(InMonth2, FMT_YMD_SLASH))>>)}

\* a site showing the same table for every destination
ExWebs ==
    {[driver |-> TRUE,
      pages  |-> [p \in PODS |->
                    Page(<<WebRow("V5", "W01", Render(InMonth2, FMT_YMD_SLASH)),
                           WebRow("V4", "", Render(InMonth1, FMT_YMD_SLASH))>>)]],
     Web(TRUE, Page(<<WebRow("V2", "W02", Render(InMonth1, FMT_YMD_SLASH))>>))}

\* the scraper whose records go to the export next to those of the uploads
ExCarriers == {"IAL"}

\* the adapters over these inputs, tabulated
ExCncFrames == [f \in ExCncFiles |-> parse_cnc(f)]

ExScraped ==
    [c \in ExCarriers |->
        [sel_pods \in SelPodsChoices |->
            [web \in ExWebs |-> scrape_fn(c, SelYear, SelMonth, sel_pods, web)]]]

ExParseCNC ==
    /\ \E files \in Batches(ExCncFiles), sel_pods \in SelPodsChoices :
           ParseCNCFiles([i \in 1..Len(files) |-> ExCncFrames[files[i]]], sel_pods)
    /\ ret' = NoRet
    /\ UNCHANGED call

ExScrape ==
    /\ \E carrier \in ExCarriers, sel_pods \in SelPodsChoices, web \in ExWebs :
           Scrape(carrier, sel_pods, ExScraped[carrier][sel_pods][web])
    /\ ret' = NoRet
    /\ UNCHANGED call

ExClearAll ==
    /\ ClearAll
    /\ ret' = NoRet
    /\ UNCHANGED call

DoExport ==
    /\ Export
    /\ UNCHANGED call

NextExport ==
    \/ ExParseCNC
    \/ ExScrape
    \/ ExClearAll
    \/ DoExport

SpecExport == Init /\ [][NextExport]_vars

(***************************************************************************)
(* Column resolution and the worksheet of a TSL workbook on their own: one *)
(* call of a resolver on a header row, or of _parse_tsl_sheet on the cells *)
(* of a sheet, drawn at the start                                          *)
(***************************************************************************)
Resolvers == {"CNC", "TSL", "IAL", "KMTC", "YML"}

\* header rows as files and sites show them
HeaderRows ==
    {<<"CY Cut-off Date", "SI/VGM Cut-off">>,
     <<"Vessel", "Voyage", "ETD", "ETA", "CY Cut-off Date", "SI/VGM Cut-off">>,
     <<"Vessel", "Voyage", "ETD", "ETA", "T/T", "CY Cut-off", "SI Cut-off">>,
     <<"Vessel Name", "Voyage", "Departure", "Arrival", "Transit Time">>,
     <<"Vessel/Voyage", "ETD", "ETA">>,
     <<"Service", "Vessel", "Voyage", "ETD", "ETA", "HONG KONG", "SHEKOU">>,
     <<"Origin", "Destination", "Vessel name", "Voyage ref.", "Departure Date",
       "Arrival Date", "Transit Time", "Port cut-off", "SI cut-off">>,
     <<"Origin", "Origin Terminal", "Destination", "Vessel name", "Departure Date">>,
     <<"Ship", "Voyage", "ETD Haiphong", "ETA">>,
     <<"No.", "Remark">>,
     <<>>}

\* the largest reference table of the sheets
MaxRules == 30

\* the sizes of the reference tables: none, short ones, and the largest
\* with the one before it
RuleCounts == {0, 1, 2, MaxRules - 1, MaxRules}

\* the rows of a sheet have seven cells
Marker == <<"SERVICE NAME", "ETD HPH", "CY Cut off", "SI/VGM", "", "", "">>

\* the rule of a service: a CY cut-off with a time and a weekday and an SI
\* cut-off with a weekday only; for the first service a CY cut-off with a
\* time only and an SI cut-off with a time and another weekday
RuleRow(k) ==
    IF k = 1 THEN <<"SVC1", "SAT", "12:00", "17:00 WED", "", "", "">>
    ELSE <<"SVC" \o ToString(k), "SAT", "18:00 FRI", "THU", "", "", "">>

BlankRow == <<"", "", "", "", "", "", "">>

\* the main headers: with every column, without an ETA column, without a
\* SERVICE column, without a column of a POD
SheetHeaders ==
    {<<"SERVICE", "VESSEL", "VOYAGE", "ETD", "ETA", "HONG KONG", "SHEKOU">>,
     <<"SERVICE", "VESSEL", "VOYAGE", "ETD", "REMARK", "HONG KONG", "SHEKOU">>,
     <<"NO.", "VESSEL", "VOYAGE", "ETD", "ETA", "HONG KONG", "SHEKOU">>,
     <<"SERVICE", "VESSEL", "VOYAGE", "ETD", "ETA", "REMARK", "NOTE">>}

\* a sailing of the selected month for HONG KONG
SheetRow(service, vessel, n, eta) ==
    <<service, vessel, "T01", str_of(Render(n, FMT_YMD_DASH)), eta, "x", "">>

\* the service cells of the first data row
ServiceCells(n) == {"SVC1", "svc1", "SVC" \o ToString(n), "OTHER", ""}

\* a sheet: the reference table of n rules (with an empty row after the
\* first rule when gap), an empty row, the main header and two sailings
Sheet(n, gap, header, service) ==
    (<<Marker>> \o [k \in 1..n |-> RuleRow(k)])
    \o (IF gap THEN <<BlankRow, RuleRow(n + 1)>> ELSE <<>>)
    \o <<BlankRow, header,
          SheetRow(service, "V3", InMonth1, str_of(Render(InMonth1 + 3, FMT_YMD_DASH))),
          BlankRow,
          SheetRow("Svc2", "V4", InMonth2, "(2 days)")>>

\* a sailing of the selected month with the two cells after the ETA
PodRow(vessel, c6, c7) ==
    <<"SVC1", vessel, "T01", str_of(Render(InMonth1, FMT_YMD_DASH)),
      str_of(Render(InMonth1 + 3, FMT_YMD_DASH)), c6, c7>>

\* a sheet without reference table whose sailings have a text in both of
\* these cells, in the second, in none, in the first, and port names in
\* both
PodSheet(header) ==
    <<header,
      PodRow("V5", "x", "y"),
      PodRow("V6", "", "z"),
      PodRow("V7", "", ""),
      PodRow("V8", "x", ""),
      PodRow("V9", "via Shekou", "and TAICHUNG")>>

Sheets ==
    {Sheet(n, FALSE, header, service) :
        n \in RuleCounts, header \in SheetHeaders, service \in ServiceCells(MaxRules)}
    \cup {Sheet(1, TRUE, header, "SVC2") : header \in SheetHeaders}
    \cup {PodSheet(header) : header \in SheetHeaders}
    \cup {<<>>, <<BlankRow>>}

ColCalls ==
    {[f |-> "resolve", resolver |-> r, headers |-> h] :
        r \in Resolvers, h \in HeaderRows}
    \cup {[f |-> "parse_tsl_sheet", data |-> d] : d \in Sheets}

InitColumns ==
    /\ data_store = EmptyStore
    /\ last = Done("init", "", FALSE, <<>>, <<>>)
    /\ pc = Idle
    /\ call \in ColCalls
    /\ ret = NoRet

CallResolve ==
    /\ call.f = "resolve"
    /\ ~ret.done
    /\ ret' = [done |-> TRUE, cols |-> resolve(call.resolver, call.headers)]
    /\ UNCHANGED <<data_store, last, pc, call>>

CallParseTslSheet ==
    /\ call.f = "parse_tsl_sheet"
    /\ ~ret.done
    /\ LET result(r) ==
               ret' = [done |-> TRUE, raised |-> r.raised, rows |-> r.rows,
                       rules |-> r.rules]
       IN  result(tsl_cells_sheet(call.data, range_start(SelYear, SelMonth),
                                  range_end(SelYear, SelMonth)))
    /\ UNCHANGED <<data_store, last, pc, call>>

NextColumns ==
    \/ CallResolve
    \/ CallParseTslSheet

SpecColumns == InitColumns /\ [][NextColumns]_vars

(***************************************************************************)
(* The helpers on their own: one call of safe_date_str or of               *)
(* days_back_from_etd on an input drawn at the start                       *)
(***************************************************************************)
BaseDate == ymd2ord(2026, 2, 20)

Dates == {BaseDate + i : i \in 0..DateSpan}

\* the five input formats of a date text
InputFormats ==
    <<FMT_YMD_SLASH, FMT_YMD_DASH, FMT_DMY_SLASH, FMT_MDY_SLASH, FMT_DMY_DASH>>

\* texts that are no date in any format, with and without blanks around
\* them, an unpadded date and a date with blanks around it
OtherTexts ==
    {<<>>, TBA, <<" ">> \o TBA \o <<" ">>,
     <<"2", "0", "2", "6", ".", "0", "3", ".", "1", "4">>,
     <<"2", "0", "2", "6", "/", "0", "2", "/", "3", "0">>,
     <<"2", "0", "2", "6", "/", "3", "/", "4">>,
     <<" ">> \o Render(BaseDate, FMT_YMD_DASH) \o <<" ">>}

DateCall(val, date, fmt) ==
    [f |-> "safe_date_str", val |-> val, date |-> date, fmt |-> fmt,
     etd |-> 0, day |-> ""]

DaysBackCall(etd, day) ==
    [f |-> "days_back_from_etd", val |-> NoneVal, date |-> 0, fmt |-> 0,
     etd |-> etd, day |-> day]

FnCalls ==
    {DateCall(StrVal(Render(n, InputFormats[k])), n, k) :
        n \in Dates, k \in 1..Len(InputFormats)}
    \cup {DateCall(StrVal(s), 0, 0) : s \in OtherTexts}
    \cup {DateCall(DatetimeVal(n), 0, 0) : n \in Dates}
    \cup {DateCall(NoneVal, 0, 0), DateCall(FloatVal, 0, 0)}
    \cup {DaysBackCall(n, d) : n \in Dates, d \in DayNames \cup {"", "HOL"}}

FnRet(raised, s, ord) == [done |-> TRUE, raised |-> raised, s |-> s, ord |-> ord]

InitFn ==
    /\ data_store = EmptyStore
    /\ last = Done("init", "", FALSE, <<>>, <<>>)
    /\ pc = Idle
    /\ call \in FnCalls
    /\ ret = NoRet

CallSafeDateStr ==
    /\ call.f = "safe_date_str"
    /\ ~ret.done
    /\ LET result(r) == ret' = FnRet(r.raised, r.s, 0)
       IN  result(safe_date_str(call.val))
    /\ UNCHANGED <<data_store, last, pc, call>>

CallDaysBack ==
    /\ call.f = "days_back_from_etd"
    /\ ~ret.done
    /\ ret' = FnRet(FALSE, <<>>, days_back_from_etd(call.etd, call.day))
    /\ UNCHANGED <<data_store, last, pc, call>>

NextFn ==
    \/ CallSafeDateStr
    \/ CallDaysBack

SpecFn == InitFn /\ [][NextFn]_vars

(***************************************************************************)
(* One press of one button on an empty store, over richer inputs: files of *)
(* every kind with rows that are skipped, rows whose date cell is empty,   *)
(* dates that are no date, and pages with tables, details and cards        *)
(***************************************************************************)
\* CNC rows.  A text cell that is empty stands for a column the file does
\* not have (row.get's default); NanDate is an empty cell of a column it has
CncValid(vessel, n) ==
    CncSrcRow("HAIPHONG", "Hong Kong", TextCell(vessel),
              TextCell(Render(n, FMT_YMD_DASH)), CutA)

CncNoVessel ==
    CncSrcRow("HAIPHONG", "SHEKOU PORT", TextCell(""),
              TextCell(Render(InMonth2, FMT_YMD_SLASH)), <<>>)

CncOtherPod ==
    CncSrcRow("HAIPHONG", "SINGAPORE", TextCell("V8"),
              TextCell(Render(InMonth2, FMT_YMD_SLASH)), <<>>)

CncNanEtd == CncSrcRow("HAIPHONG", "HONG KONG", TextCell("V2"), NanDate, <<>>)

\* a sailing from another origin
CncOtherPol ==
    CncSrcRow("HO CHI MINH", "Hong Kong", TextCell("V9"),
              TextCell(Render(InMonth2, FMT_YMD_SLASH)), <<>>)

\* a sailing with a transit cell
CncTtRow(vessel, tt) ==
    [pol |-> "HAIPHONG", pod |-> "HONG KONG", vessel |-> TextCell(vessel),
     voyage |-> "001", etd |-> TextCell(Render(InMonth1, FMT_YMD_SLASH)),
     eta |-> TextCell(<<>>), tt |-> tt, cy |-> <<>>, si |-> <<>>]

\* transit cells: a bare integer, a range, a value with its unit, a value
\* in weeks, and none
CncTtRows ==
    <<CncTtRow("V21", <<"1", "2">>),
      CncTtRow("V22", <<"3", "-", "4">>),
      CncTtRow("V23", <<"3", " ", "D", "a", "y", "s">>),
      CncTtRow("V24", <<"1", " ", "w", "e", "e", "k">>),
      CncTtRow("V25", <<>>)>>

CncKinds == {"csv", "pdf", "xlsx"}

AdCncFiles ==
    UNION {{CncFile(k, <<CncValid("V1", InMonth1)>>),
            CncFile(k, <<CncOtherPol, CncValid("V1", InMonth1)>> \o CncTtRows),
            CncFile(k, <<CncNoVessel, CncOtherPod, CncValid("V7", InMonth2)>>),
            CncFile(k, <<CncValid("V1", InMonth1), CncNanEtd, CncValid("V7", InMonth2)>>),
            UnreadableCnc(k)} : k \in CncKinds}

TslValid(vessel, n, pods) == TslSrcRow(vessel, Render(n, FMT_YMD_DASH), "SVC1", pods)

TslKinds == {"xlsx", "pdf"}

\* the first and the last day of the selected month
MonthFirst == ymd2ord(SelYear, SelMonth, 1)
MonthLast  == ymd2ord(SelYear, SelMonth, days_in_month(SelYear, SelMonth))

\* sailings on the two days at each end of the month
TslWindowRows ==
    <<TslValid("V10", MonthFirst - 1, {"HONG KONG"}),
      TslValid("V11", MonthFirst, {"HONG KONG"}),
      TslValid("V12", MonthLast, {"HONG KONG"}),
      TslValid("V13", MonthLast + 1, {"HONG KONG"})>>

\* a sailing of InMonth1 with an ETA cell: the text left of the cell
\* without its brackets, and the number of its "(N days)" note
TslEtaRow(vessel, eta, note) ==
    [vessel |-> vessel, voyage |-> "T01", etd |-> Render(InMonth1, FMT_YMD_DASH),
     eta |-> eta, eta_note |-> note, service |-> "SVC1", pods |-> {"HONG KONG"}]

\* ETA cells: three days after the ETD, the day of the ETD, the day before
\* it, a date with a note, a note alone, and a text that is no date
TslEtaRows ==
    <<TslEtaRow("V14", Render(InMonth1 + 3, FMT_YMD_DASH), <<>>),
      TslEtaRow("V15", Render(InMonth1, FMT_YMD_SLASH), <<>>),
      TslEtaRow("V16", Render(InMonth1 - 1, FMT_YMD_DASH), <<>>),
      TslEtaRow("V17", Render(InMonth1 + 3, FMT_YMD_DASH), <<"2">>),
      TslEtaRow("V18", <<>>, <<"1", "2">>),
      TslEtaRow("V19", TBA, <<>>)>>

AdTslFiles ==
    UNION {{TslFile(k, <<TslValid("V3", InMonth1, {"HONG KONG"})>>),
            TslFile(k, TslWindowRows \o TslEtaRows),
            TslFile(k, <<TslSrcRow("V4", TBA, "SVC1", {"SHEKOU"}),
                         TslValid("V9", InMonth2, {"HONG KONG", "SHEKOU"})>>),
            TslFile(k, <<TslValid("V6", NextMonth, {"HONG KONG"}),
                         TslSrcRow("", Render(InMonth1, FMT_YMD_SLASH), "SVC1", {})>>),
            [kind |-> k, readable |-> FALSE, sheets |-> <<>>]} : k \in TslKinds}

AdTables ==
    {<<>>,
     <<WebRow("V5", "W01", Render(InMonth1, FMT_YMD_SLASH))>>,
     <<WebRow("V4", "W04", TBA), WebRow("V5", "W01", Render(InMonth1, FMT_YMD_DASH))>>,
     <<WebRow("V6", "W02", Render(NextMonth, FMT_YMD_SLASH)),
       WebRow("", "W03", Render(InMonth2, FMT_YMD_SLASH))>>,
     <<WebRow("V5", "W01", Render(InMonth1, FMT_YMD_SLASH)),
       WebRow("V5", "W01", Render(InMonth1, FMT_YMD_SLASH)),
       WebRow("V5", "W01", Render(InMonth2, FMT_YMD_SLASH))>>,
     <<WebRow("V6", "W05", Render(LastYear, FMT_YMD_SLASH)),
       WebRow("V7", "W06", Render(InMonth2, FMT_YMD_SLASH))>>}

\* a date as the sites' patterns also accept it, which is in none of the
\* formats of safe_date_str
DottedDate == <<"2", "0", "2", "6", ".", "0", "3", ".", "2", "8">>

\* what the detail pages (KMTC) or the result cards (YML) show; the
\* patterns of the cards and of the calendar take a vessel in capitals
AdBlocks ==
    {<<>>,
     <<WebRow("ORION", "W07", DottedDate)>>,
     <<WebRow("VEGAS", "W08", Render(InMonth2, FMT_YMD_SLASH))>>,
     <<WebRow("LYRA", "W10", Render(NextMonth, FMT_YMD_SLASH)),
       WebRow("PAVO", "W11", Render(LastYear, FMT_YMD_SLASH)),
       WebRow("CETUS", "W12", Render(InMonth1, FMT_YMD_SLASH))>>}

AdCalendars ==
    {<<>>,
     <<[y |-> 2026, mo |-> 3, d |-> 28, vessel |-> "ULSAN", voyage |-> "W09"]>>,
     <<[y |-> 2026, mo |-> 4, d |-> 2, vessel |-> "BUSAN", voyage |-> "W13"],
       [y |-> 2025, mo |-> 3, d |-> 14, vessel |-> "MOKPO", voyage |-> "W14"],
       [y |-> 2026, mo |-> 3, d |-> 21, vessel |-> "ULSAN", voyage |-> "W15"]>>}

AdPages(carrier) ==
    {ErrorPage}
    \cup {[error |-> FALSE, table |-> t, calendar |-> c, details |-> d, cards |-> k] :
            t \in AdTables,
            c \in IF carrier = "KMTC" THEN AdCalendars ELSE {<<>>},
            d \in IF carrier = "KMTC" THEN AdBlocks ELSE {<<>>},
            k \in IF carrier = "YML" THEN AdBlocks ELSE {<<>>}}

AdWebs(carrier) ==
    {Web(FALSE, Page(<<>>))} \cup {Web(TRUE, pg) : pg \in AdPages(carrier)}

AdCalls ==
    {[f |-> "parse_cnc", files |-> files, sel_pods |-> sel_pods] :
        files \in Batches(AdCncFiles), sel_pods \in SelPodsChoices}
    \cup {[f |-> "parse_tsl", files |-> files, sel_pods |-> sel_pods] :
            files \in Batches(AdTslFiles), sel_pods \in SelPodsChoices}
    \cup UNION {{[f |-> "scrape", carrier |-> c, web |-> web, sel_pods |-> sel_pods] :
                    web \in AdWebs(c), sel_pods \in SelPodsChoices} :
                c \in SeqToSet(carriers_web)}

\* frames: the DataFrame of each file, or the one of the scraper
AdRet(frames) == [done |-> TRUE, frames |-> frames]

InitAdapters ==
    /\ data_store = EmptyStore
    /\ last = Done("init", "", FALSE, <<>>, <<>>)
    /\ pc = Idle
    /\ call \in AdCalls
    /\ ret = NoRet

CallParseCNC ==
    /\ call.f = "parse_cnc"
    /\ ~ret.done
    /\ LET store(frames) ==
               /\ ParseCNCFiles(frames, call.sel_pods)
               /\ ret' = AdRet(frames)
       IN  store([i \in 1..Len(call.files) |-> parse_cnc(call.files[i])])
    /\ UNCHANGED call

CallParseTSL ==
    /\ call.f = "parse_tsl"
    /\ ~ret.done
    /\ LET store(frames) ==
               /\ ParseTSLFiles(frames, call.sel_pods)
               /\ ret' = AdRet(frames)
       IN  store([i \in 1..Len(call.files) |->
                     parse_tsl(call.files[i], range_start(SelYear, SelMonth),
                               range_end(SelYear, SelMonth))])
    /\ UNCHANGED call

CallScrape ==
    /\ call.f = "scrape"
    /\ ~ret.done
    /\ LET store(df) ==
               /\ Scrape(call.carrier, call.sel_pods, df)
               /\ ret' = AdRet(<<df>>)
       IN  store(scrape_fn(call.carrier, SelYear, SelMonth, call.sel_pods, call.web))
    /\ UNCHANGED call

NextAdapters ==
    \/ CallParseCNC
    \/ CallParseTSL
    \/ CallScrape

SpecAdapters == InitAdapters /\ [][NextAdapters]_vars

(***************************************************************************)
(* Properties of the store                                                 *)
(***************************************************************************)
Merged == get_all_data(data_store)

\* the batch of the last store_data call, as stored rows
LastBatch == [j \in 1..Len(last.df) |-> WithCarrier(last.df[j], last.carrier)]

\* C1: the merged dataset read back from the store holds at most one record
\* for any natural key (carrier, pol, pod, vessel, voyage, etd).
C1_AtMostOneRecordPerKey ==
    \A i, j \in 1..Len(Merged) :
        i # j => NaturalKey(Merged[i]) # NaturalKey(Merged[j])

C3_AppendReplaceOnly ==
    [][ \A c \in Carriers : \A i \in 1..Len(data_store[c]) :
          LET r == data_store[c][i]
          IN  (\A n \in 1..Len(data_store'[c]) : data_store'[c][n] # r)
              => \/ last'.op = "clear"
                 \/ /\ last'.stored
                    /\ \E j \in 1..Len(last'.df) :
                          NaturalKey(WithCarrier(last'.df[j], last'.carrier))
                              = NaturalKey(r) ]_vars

\* C4: a scrape call that fails or returns zero records leaves the whole
\* store as it was.
C4_EmptyScrapeKeepsStore ==
    [][ (last'.op = "scrape" /\ last'.df = <<>>) => data_store' = data_store ]_vars

C4_Witness ==
    /\ last.op = "scrape"
    /\ last.df = <<>>
    /\ last.prev # <<>>
    /\ data_store[last.carrier] = last.prev
    /\ \E c \in Carriers \ {last.carrier} : data_store[c] # <<>>

\* C5: every record of the merged dataset has a non-empty vessel.
C5_EveryRecordHasVessel ==
    \A i \in 1..Len(Merged) : Merged[i].vessel # ""

(***************************************************************************)
(* Properties of the date helpers                                          *)
(***************************************************************************)
Canonical(n) == Render(n, FMT_YMD_SLASH)

\* C6: for every ETD and weekday name MON..SUN the cut-off date is the
\* latest date on or before the ETD that falls on that weekday: it is 0 to 6
\* days before the ETD, never after it, and the ETD itself when the ETD
\* falls on that weekday (2026/03/14 with FRI gives 2026/03/13, with SAT
\* 2026/03/14).
C6_LatestWeekdayOnOrBefore ==
    (ret.done /\ call.f = "days_back_from_etd" /\ call.day \in DayNames) =>
        /\ ret.ord <= call.etd
        /\ call.etd - ret.ord \in 0..6
        /\ weekday(ret.ord) = DAY_TO_NUM[call.day]
        /\ \A d \in (ret.ord + 1)..call.etd : weekday(d) # DAY_TO_NUM[call.day]
        /\ weekday(call.etd) = DAY_TO_NUM[call.day] => ret.ord = call.etd
        /\ (call.etd = ymd2ord(2026, 3, 14) /\ call.day = "FRI")
              => Canonical(ret.ord) = Render(ymd2ord(2026, 3, 13), FMT_YMD_SLASH)
        /\ (call.etd = ymd2ord(2026, 3, 14) /\ call.day = "SAT")
              => ret.ord = call.etd

C6_Witness ==
    /\ ret.done
    /\ call.f = "days_back_from_etd"
    /\ call.etd = ymd2ord(2026, 3, 14)
    /\ call.day = "FRI"
    /\ ret.ord = call.etd - 1

\* C7 as claimed: the rendering of a date in each of the five input formats
\* maps to the canonical YYYY/MM/DD string of that date.
C7_EveryFormatSameDate ==
    (ret.done /\ call.f = "safe_date_str" /\ call.fmt # 0) =>
        ~ret.raised /\ ret.s = Canonical(call.date)

\* C7 as amended: the renderings in YYYY/MM/DD, YYYY-MM-DD, DD/MM/YYYY and
\* DD-MM-YYYY map to the canonical string of the date; the MM/DD/YYYY
\* rendering does so when the day is above 12 or equal to the month, and is
\* otherwise read day-first: it maps to the canonical string of the date
\* whose day and month are exchanged.
C7_DayFirstWins ==
    (ret.done /\ call.f = "safe_date_str" /\ call.fmt # 0) =>
        LET t == ord2ymd(call.date)
            ambiguous == InputFormats[call.fmt] = FMT_MDY_SLASH
                         /\ t[3] <= 12 /\ t[3] # t[2]
        IN  /\ ~ret.raised
            /\ ~ambiguous => ret.s = Canonical(call.date)
            /\ ambiguous => ret.s = Canonical(ymd2ord(t[1], t[3], t[2]))

C7_Witness ==
    /\ ret.done
    /\ call.f = "safe_date_str"
    /\ call.fmt # 0
    /\ InputFormats[call.fmt] = FMT_MDY_SLASH
    /\ ord2ymd(call.date)[3] <= 12
    /\ ord2ymd(call.date)[3] # ord2ymd(call.date)[2]
    /\ ret.s # Canonical(call.date)

\* C8: safe_date_str never raises, and a text that matches none of the five
\* formats comes back unchanged.
C8_NeverRaisesKeepsText ==
    (ret.done /\ call.f = "safe_date_str") =>
        /\ ~ret.raised
        /\ ( /\ call.val.t = "str"
             /\ \A k \in 1..Len(InputFormats) :
                    ~strptime(call.val.s, InputFormats[k]).ok )
           => ret.s = call.val.s

(***************************************************************************)
(* Properties of the adapters                                              *)
(***************************************************************************)
\* a text that is not empty and is a date in none of the formats
NoDateText(etd) ==
    /\ strip(etd) # <<>>
    /\ \A k \in 1..Len(InputFormats) : ~strptime(strip(etd), InputFormats[k]).ok

\* df has a record of the source row with its ETD text
KeptIn(df, row) ==
    \E n \in 1..Len(df) :
        /\ df[n].vessel = row.vessel
        /\ df[n].voyage = row.voyage
        /\ df[n].etd = strip(row.etd)

SheetRows(file) == UNION {SeqToSet(file.sheets[k].rows) : k \in 1..Len(file.sheets)}

\* the rows a scraper reads on a page: the table, and the detail pages of
\* KMTC or the cards of YML
PageRows(carrier, pg) ==
    SeqToSet(pg.table)
    \cup (IF carrier = "KMTC" THEN SeqToSet(pg.details) ELSE {})
    \cup (IF carrier = "YML" THEN SeqToSet(pg.cards) ELSE {})

\* C9: a source row with a vessel (and, for TSL, a voyage) whose non-empty
\* ETD text is no date is in the adapter's output with that text, for the
\* TSL spreadsheet and PDF and for the tables, details and cards of IAL,
\* KMTC and YML.
C9_UnparseableEtdKept ==
    ret.done =>
        /\ call.f = "parse_tsl" =>
              \A i \in 1..Len(call.files) :
                  call.files[i].readable =>
                      \A row \in SheetRows(call.files[i]) :
                          (row.vessel # "" /\ row.voyage # "" /\ NoDateText(row.etd))
                              => KeptIn(ret.frames[i], row)
        /\ call.f = "scrape" =>
              \A i \in 1..Len(call.sel_pods) :
                  LET pg == call.web.pages[call.sel_pods[i]]
                  IN  (call.web.driver /\ ~pg.error) =>
                          \A row \in PageRows(call.carrier, pg) :
                              (row.vessel # "" /\ NoDateText(row.etd))
                                  => KeptIn(ret.frames[1], row)

\* a CNC source row that every branch of parse_cnc turns into a record
CncPlain(row) ==
    /\ normalize_pod(row.pod) \in PODS
    /\ contains(upper(row.pol), "HAIPHONG")

\* a TSL source row that both branches of parse_tsl turn into records:
\* vessel, voyage and an ETD in the selected month
TslPlain(row) ==
    /\ row.vessel # ""
    /\ row.voyage # ""
    /\ \E n \in ymd2ord(SelYear, SelMonth, 1)
                  ..ymd2ord(SelYear, SelMonth, days_in_month(SelYear, SelMonth)) :
           \E k \in 1..Len(InputFormats) : row.etd = Render(n, InputFormats[k])

\* no date cell of the file is an empty cell
NoNanCell(file) == \A n \in 1..Len(file.rows) : ~file.rows[n].etd.nan /\ ~file.rows[n].eta.nan

Stored(carrier, vessel, voyage, pod) ==
    \E n \in 1..Len(data_store[carrier]) :
        /\ data_store[carrier][n].vessel = vessel
        /\ data_store[carrier][n].voyage = voyage
        /\ data_store[carrier][n].pod = pod

\* C10: in a batch of uploaded files, a file that cannot be read yields no
\* record and stops nothing: every record parsed from every other file is
\* in the store when its POD is selected, and so is a record for each plain
\* source row of those files.
C10_MalformedFileIsolated ==
    (ret.done /\ call.f \in {"parse_cnc", "parse_tsl"}) =>
        LET carrier == IF call.f = "parse_cnc" THEN "CNC" ELSE "TSL"
            sel == SeqToSet(call.sel_pods)
        IN  \A i \in 1..Len(call.files) :
              LET file == call.files[i] IN
              /\ ~file.readable => ret.frames[i] = <<>>
              /\ file.readable =>
                    /\ \A n \in 1..Len(ret.frames[i]) :
                          ret.frames[i][n].pod \in sel =>
                              \E m \in 1..Len(data_store[carrier]) :
                                  data_store[carrier][m]
                                      = WithCarrier(ret.frames[i][n], carrier)
                    /\ (call.f = "parse_cnc" /\ NoNanCell(file)) =>
                          \A n \in 1..Len(file.rows) :
                              LET row == file.rows[n] IN
                              (CncPlain(row) /\ normalize_pod(row.pod) \in sel)
                                  => Stored("CNC", cell_str(row.vessel), row.voyage,
                                            normalize_pod(row.pod))
                    /\ call.f = "parse_tsl" =>
                          \A row \in SheetRows(file) :
                              (TslPlain(row) /\ "HONG KONG" \in row.pods
                                    /\ "HONG KONG" \in sel)
                                  => Stored("TSL", row.vessel, row.voyage, "HONG KONG")

C10_Witness ==
    /\ ret.done
    /\ call.f = "parse_tsl"
    /\ Len(call.files) = 2
    /\ ~call.files[1].readable
    /\ call.files[2].readable
    /\ ret.frames[1] = <<>>
    /\ ret.frames[2] # <<>>
    /\ \E row \in SheetRows(call.files[2]) :
          /\ TslPlain(row)
          /\ "HONG KONG" \in row.pods
          /\ Stored("TSL", row.vessel, row.voyage, "HONG KONG")


(***************************************************************************)
(* Properties of the scrape session                                        *)
(***************************************************************************)
\* the natural key of a record of one adapter
SessionKey(r) == <<r.pol, r.pod, r.vessel, r.voyage, r.etd>>

\* the ETD text is a date of the selected month
InMonthText(etd) ==
    \E n \in ymd2ord(SelYear, SelMonth, 1)
                ..ymd2ord(SelYear, SelMonth, days_in_month(SelYear, SelMonth)) :
        etd = Render(n, FMT_YMD_SLASH)

\* C16: the list a scrape adapter returns holds no two records with the same
\* natural key (pol, pod, vessel, voyage, etd), and it has a record for
\* every candidate of the session, a row with a vessel and an ETD in the
\* selected month shown for a selected destination: none with a key of
\* its own is lost to deduplication.
C16_SessionDedupByNaturalKey ==
    (ret.done /\ call.f = "scrape") =>
        /\ \A i, j \in 1..Len(ret.frames[1]) :
               i # j => SessionKey(ret.frames[1][i]) # SessionKey(ret.frames[1][j])
        /\ \A i \in 1..Len(call.sel_pods) :
               LET pg == call.web.pages[call.sel_pods[i]]
               IN  (call.web.driver /\ ~pg.error) =>
                       \A row \in PageRows(call.carrier, pg) :
                           (row.vessel # "" /\ InMonthText(row.etd)) =>
                               \E n \in 1..Len(ret.frames[1]) :
                                   SessionKey(ret.frames[1][n])
                                       = <<"HAIPHONG", call.sel_pods[i], row.vessel,
                                           row.voyage, row.etd>>

(***************************************************************************)
(* Properties of the upload window                                         *)
(***************************************************************************)
\* the dates an ETD text of a file stands for, as ordinals
DateOrds(etd) ==
    {strptime(strip(etd), InputFormats[k]).ord :
        k \in {j \in 1..Len(InputFormats) : strptime(strip(etd), InputFormats[j]).ok}}

\* df has a record of the source row with the ETD d
KeptOn(df, row, d) ==
    \E n \in 1..Len(df) :
        /\ df[n].vessel = row.vessel
        /\ df[n].voyage = row.voyage
        /\ df[n].etd = Render(d, FMT_YMD_SLASH)

\* C22: parse_tsl, for a spreadsheet and for a PDF, has a record for a row
\* with vessel, voyage and a dated ETD exactly when the ETD is on or after
\* the first and on or before the last day of the selected month, and the
\* ETD of every record it returns is a date of that month.
C22_WindowInclusive ==
    (ret.done /\ call.f = "parse_tsl") =>
        \A i \in 1..Len(call.files) :
            call.files[i].readable =>
                /\ \A row \in SheetRows(call.files[i]) :
                       (row.vessel # "" /\ row.voyage # "") =>
                           \A d \in DateOrds(row.etd) :
                               KeptOn(ret.frames[i], row, d)
                                   <=> (MonthFirst <= d /\ d <= MonthLast)
                /\ \A n \in 1..Len(ret.frames[i]) :
                       \E d \in MonthFirst..MonthLast :
                           ret.frames[i][n].etd = Render(d, FMT_YMD_SLASH)

\* a file with sailings on the first and on the last day of the month,
\* both returned, and on the day before and the day after, both dropped
C22_Witness ==
    /\ ret.done /\ call.f = "parse_tsl"
    /\ \E i \in 1..Len(call.files) :
           /\ call.files[i].readable
           /\ \E r1, r2, r3, r4 \in SheetRows(call.files[i]) :
                  /\ MonthFirst \in DateOrds(r1.etd)
                  /\ KeptOn(ret.frames[i], r1, MonthFirst)
                  /\ MonthLast \in DateOrds(r2.etd)
                  /\ KeptOn(ret.frames[i], r2, MonthLast)
                  /\ (MonthFirst - 1) \in DateOrds(r3.etd)
                  /\ ~KeptOn(ret.frames[i], r3, MonthFirst - 1)
                  /\ (MonthLast + 1) \in DateOrds(r4.etd)
                  /\ ~KeptOn(ret.frames[i], r4, MonthLast + 1)

\* the source row has a dated ETD outside the selected month
OutsideMonth(row) ==
    \E d \in DateOrds(row.etd) : d < MonthFirst \/ d > MonthLast

\* C23: every record a scraper returns whose ETD is a YYYY/MM/DD date has
\* it in the requested year and month, for the tables of IAL, KMTC and YML,
\* the calendar and the detail pages of KMTC and the cards of YML.
C23_ScrapedEtdInTargetMonth ==
    (ret.done /\ call.f = "scrape") =>
        \A n \in 1..Len(ret.frames[1]) :
            LET in_month(p) ==
                    p.ok => (ord2ymd(p.ord)[1] = SelYear /\ ord2ymd(p.ord)[2] = SelMonth)
            IN  in_month(strptime(ret.frames[1][n].etd, FMT_YMD_SLASH))

\* a page whose table and whose detail pages or cards each show a sailing
\* of another month or year next to one of the selected month: the list
\* returned has the sailings of the month and none of the others
C23_Witness ==
    /\ ret.done /\ call.f = "scrape" /\ call.web.driver
    /\ LET pg == call.web.pages["HONG KONG"]
       IN  /\ ~pg.error
           /\ \E row \in SeqToSet(pg.table) : row.vessel # "" /\ OutsideMonth(row)
           /\ \E row \in SeqToSet(pg.details) \cup SeqToSet(pg.cards) :
                  row.vessel # "" /\ OutsideMonth(row)
           /\ \E row \in SeqToSet(pg.table) :
                  \E d \in MonthFirst..MonthLast : KeptOn(ret.frames[1], row, d)
           /\ \E row \in SeqToSet(pg.details) \cup SeqToSet(pg.cards) :
                  \E d \in MonthFirst..MonthLast : KeptOn(ret.frames[1], row, d)
           /\ \A row \in PageRows(call.carrier, pg) :
                  OutsideMonth(row) =>
                      \A d \in DateOrds(row.etd) : ~KeptOn(ret.frames[1], row, d)

(***************************************************************************)
(* Properties of the transit time                                          *)
(***************************************************************************)
\* the records of df for the source row
RecordsFor(df, row) ==
    {df[n] : n \in {k \in 1..Len(df) :
                       df[k].vessel = row.vessel /\ df[k].voyage = row.voyage}}

\* the record is the one parse_cnc makes of the source row
MadeFrom(rec, row) ==
    /\ rec.vessel \in {cell_str(row.vessel), row.vessel.s}
    /\ rec.voyage = row.voyage
    /\ rec.pod = normalize_pod(row.pod)

\* "<n> days"
DaysText(n) == int_str(n) \o <<" ">> \o W_DAYS

\* C25: for a TSL spreadsheet and for a TSL PDF, the transit time of a
\* record is "N days" when the ETA cell has the note "(N days)"; without a
\* note, when ETD and ETA are dates, it is the number of days from the ETD
\* to the ETA with " days" when that is not negative and blank otherwise.
C25_TransitFromNoteOrDates ==
    (ret.done /\ call.f = "parse_tsl") =>
        \A i \in 1..Len(call.files) :
            call.files[i].readable =>
                \A row \in SheetRows(call.files[i]) :
                    \A rec \in RecordsFor(ret.frames[i], row) :
                        /\ row.eta_note # <<>> =>
                               rec.tt = row.eta_note \o <<" ">> \o W_DAYS
                        /\ row.eta_note = <<>> =>
                               \A d \in DateOrds(row.etd) : \A e \in DateOrds(row.eta) :
                                   rec.tt = IF e - d >= 0 THEN DaysText(e - d) ELSE <<>>

\* the transit text of a record made of the source text t: t with " days"
\* when t is a bare integer, and t as it is otherwise; the case of the unit
\* is left open
SuffixedOnlyBareInt(rec_tt, t) ==
    lower(rec_tt) = lower(IF bare_int(t) THEN t \o <<" ">> \o W_DAYS ELSE t)

\* C26: the transit time of a record of parse_cnc and of a scraper is the
\* transit text of its source row, with the unit " days" added when that
\* text is a bare integer and only then.
C26_UnitOnlyForBareInteger ==
    ret.done =>
        /\ call.f = "parse_cnc" =>
               \A i \in 1..Len(call.files) :
                   \A n \in 1..Len(ret.frames[i]) :
                       \A m \in 1..Len(call.files[i].rows) :
                           MadeFrom(ret.frames[i][n], call.files[i].rows[m]) =>
                               SuffixedOnlyBareInt(ret.frames[i][n].tt,
                                                   strip(call.files[i].rows[m].tt))
        /\ call.f = "scrape" =>
               \A k \in 1..Len(call.sel_pods) :
                   LET pg == call.web.pages[call.sel_pods[k]]
                   IN  (call.web.driver /\ ~pg.error) =>
                           \A row \in PageRows(call.carrier, pg) :
                               \A rec \in RecordsFor(ret.frames[1], row) :
                                   SuffixedOnlyBareInt(rec.tt, strip(row.tt))

(***************************************************************************)
(* Properties of the CNC filters                                           *)
(***************************************************************************)
\* C24: every record parse_cnc returns for a CSV, a PDF or an Excel file
\* is made from a source row whose destination normalizes to a port of
\* POD_LIST and whose origin contains HAIPHONG.
C24_CncOriginAndDestination ==
    (ret.done /\ call.f = "parse_cnc") =>
        \A i \in 1..Len(call.files) :
            \A n \in 1..Len(ret.frames[i]) :
                \E m \in 1..Len(call.files[i].rows) :
                    /\ MadeFrom(ret.frames[i][n], call.files[i].rows[m])
                    /\ normalize_pod(call.files[i].rows[m].pod) \in PODS
                    /\ has_sub(upper(call.files[i].rows[m].pol), "HAIPHONG")

(***************************************************************************)
(* Properties of column resolution                                         *)
(***************************************************************************)
\* C15: on a header row with "CY Cut-off Date" followed by "SI/VGM Cut-off"
\* the resolvers of the KMTC and of the YML table give the first to the CY
\* cut-off and the second to the SI cut-off, and no header to two fields.
C15_CutoffHeadersResolved ==
    (ret.done /\ call.f = "resolve" /\ call.resolver \in {"KMTC", "YML"}) =>
        \A j \in 1..(Len(call.headers) - 1) :
            (call.headers[j] = "CY Cut-off Date"
             /\ call.headers[j + 1] = "SI/VGM Cut-off") =>
                /\ ret.cols.cy = j
                /\ ret.cols.si = j + 1
                /\ \A f, g \in DOMAIN ret.cols :
                       (f # g /\ ret.cols[f] # 0) => ret.cols[f] # ret.cols[g]

\* the order in which the fields claim a header; the service column of a
\* TSL sheet comes before the canonical fields
FIELD_ORDER ==
    <<"service", "vessel", "voyage", "etd", "eta", "tt", "cy", "si", "pol", "pod">>

FieldRank(f) == CHOOSE i \in 1..Len(FIELD_ORDER) : FIELD_ORDER[i] = f

\* the keywords by which a resolver recognises a field
Keywords(resolver, f) ==
    CASE resolver = "IAL"  -> SeqToSet(IAL_KEYWORDS[f])
      [] resolver = "KMTC" -> SeqToSet(KMTC_KEYWORDS[f])
      [] resolver = "YML"  -> SeqToSet(YML_KEYWORDS[f])
      [] resolver = "TSL"  -> SeqToSet(TSL_KEYWORDS[f])
      [] resolver = "CNC"  ->
           {COL_MAP_PDF[b].kw : b \in {c \in 1..Len(COL_MAP_PDF) :
                                          COL_MAP_PDF[c].field = f}}

HeaderMatches(resolver, f, h) ==
    \E kw \in Keywords(resolver, f) : has_sub(str_lower(h), str_lower(kw))

\* C17: each field is resolved to the first header that matches it and that
\* no earlier field has claimed, and to none when there is no such header;
\* so no header is resolved to two fields.
C17_HeaderClaimedOnce ==
    (ret.done /\ call.f = "resolve") =>
        LET claimed(j, f) ==
                \E g \in DOMAIN ret.cols :
                    FieldRank(g) < FieldRank(f) /\ ret.cols[g] = j
        IN  \A f \in DOMAIN ret.cols :
                ret.cols[f]
                    = first_of({j \in 1..Len(call.headers) :
                                   /\ HeaderMatches(call.resolver, f, call.headers[j])
                                   /\ ~claimed(j, f)})

(***************************************************************************)
(* Properties of the TSL worksheet                                         *)
(***************************************************************************)
\* the position of the main header of the sheet of the call, 0 without one
HeaderAt == first_of({h \in 1..Len(call.data) : call.data[h] \in SheetHeaders})

\* the positions of the sailings below the main header
SailingsAt == {n \in (HeaderAt + 1)..Len(call.data) : call.data[n][2] # ""}

\* the service cell of a sailing, "" when the sheet has no SERVICE column
ServiceOf(n) ==
    IF call.data[HeaderAt][1] = "SERVICE" THEN call.data[n][1] ELSE ""

\* the records of the sheet for the sailing in row n
RecordsOf(n) ==
    {ret.rows[i] : i \in {k \in 1..Len(ret.rows) :
                             ret.rows[k].vessel = call.data[n][2]}}

\* C18: a sheet whose header has VESSEL, VOYAGE and ETD but no column for
\* another field (ETA, SERVICE) still yields a record for each sailing of
\* the month, with a blank ETA when the ETA column is the missing one.
C18_MissingColumnIsBlank ==
    (ret.done /\ call.f = "parse_tsl_sheet" /\ HeaderAt # 0) =>
        \A n \in SailingsAt :
            /\ RecordsOf(n) # {}
            /\ (\A j \in 1..Len(call.data[HeaderAt]) :
                    ~has_sub(call.data[HeaderAt][j], "ETA"))
                   => \A rec \in RecordsOf(n) : rec.eta = <<>>

\* C19: every row with a service name between the SERVICE NAME row and the
\* first empty row after it has a rule in the table, however long the
\* region is.
C19_EveryRuleRowRead ==
    (ret.done /\ call.f = "parse_tsl_sheet") =>
        \A m \in 1..Len(call.data) :
            call.data[m] = Marker =>
                \A k \in (m + 1)..Len(call.data) :
                    ((\A k2 \in (m + 1)..k : any_cell(call.data[k2]))
                     /\ call.data[k][1] # "")
                        => str_lower(call.data[k][1])
                               \in {str_lower(key) : key \in DOMAIN ret.rules}

\* C20: the service of a sailing is looked up in the rule table of its
\* sheet without regard to case: with no rule of that name both cut-offs of
\* its records are empty, and with one each cut-off is empty exactly when
\* the rule has no weekday for it.
C20_ServiceLookupIgnoresCase ==
    (ret.done /\ call.f = "parse_tsl_sheet" /\ HeaderAt # 0 /\ ~ret.raised) =>
        \A n \in SailingsAt :
            LET keys == {key \in DOMAIN ret.rules :
                            str_lower(key) = str_lower(ServiceOf(n))}
            IN  \A rec \in RecordsOf(n) :
                    IF keys = {}
                    THEN rec.cy = <<>> /\ rec.si = <<>>
                    ELSE \A key \in keys :
                             /\ (rec.cy = <<>>) <=> (ret.rules[key].cy_day = "")
                             /\ (rec.si = <<>>) <=> (ret.rules[key].si_day = "")

\* a sheet with a sailing whose service has no rule, with empty cut-offs,
\* and one whose service is written in another case than its rule, with
\* the cut-off of that rule
C20_Witness ==
    /\ ret.done /\ call.f = "parse_tsl_sheet" /\ HeaderAt # 0 /\ ~ret.raised
    /\ \E n \in SailingsAt :
           /\ ServiceOf(n) = "OTHER"
           /\ \E rec \in RecordsOf(n) : rec.cy = <<>> /\ rec.si = <<>>
    /\ \E n \in SailingsAt :
           /\ ServiceOf(n) = "Svc2"
           /\ "SVC2" \in DOMAIN ret.rules
           /\ \E rec \in RecordsOf(n) : rec.cy # <<>> /\ rec.si # <<>>

\* the rule of the table of the sheet for the service of sailing n, as a
\* set: empty when no rule has the name
RulesOf(n) ==
    {ret.rules[key] : key \in {k \in DOMAIN ret.rules :
                                  str_lower(k) = str_lower(ServiceOf(n))}}

\* the ETD of the sailing in row n, as the ordinal of its date
EtdOf(n) == strptime(chars(call.data[n][4]), FMT_YMD_DASH).ord

\* the date of the seven days that end on the ETD that falls on the
\* weekday `day`, as a set
BackDates(etd_ord, day) ==
    {d \in (etd_ord - 6)..etd_ord : weekday(d) = DAY_TO_NUM[day]}

\* the text a cut-off has for a (weekday, time) pair and an ETD
CutoffTexts(etd_ord, day, time) ==
    IF day = "" THEN {<<>>}
    ELSE {Render(d, FMT_YMD_SLASH) \o (IF time = <<>> THEN <<>> ELSE <<" ">> \o time) :
             d \in BackDates(etd_ord, day)}

\* C21: with a rule for the service of a sailing, the CY cut-off of each of
\* its records is made from the CY weekday and the CY time of the rule and
\* the SI cut-off from the SI weekday and the SI time: the date of that
\* weekday before the ETD as YYYY/MM/DD, then a space and the time when
\* the rule has one; a cut-off without a weekday is blank even with a time.
C21_CutoffsFromOwnPair ==
    (ret.done /\ call.f = "parse_tsl_sheet" /\ HeaderAt # 0 /\ ~ret.raised) =>
        \A n \in SailingsAt :
            \A rule \in RulesOf(n) :
                \A rec \in RecordsOf(n) :
                    /\ rec.cy \in CutoffTexts(EtdOf(n), rule.cy_day, rule.cy_time)
                    /\ rec.si \in CutoffTexts(EtdOf(n), rule.si_day, rule.si_time)

\* a sheet with a sailing whose rule has a CY time without a weekday and an
\* SI time with one, and a sailing whose rule has a CY weekday and time and
\* an SI weekday without a time: a blank CY cut-off next to a dated and
\* timed SI cut-off, and a timed CY cut-off next to a date-only SI cut-off
C21_Witness ==
    /\ ret.done /\ call.f = "parse_tsl_sheet" /\ HeaderAt # 0 /\ ~ret.raised
    /\ \E n \in SailingsAt :
           \E rule \in RulesOf(n) :
               /\ rule.cy_day = "" /\ rule.cy_time # <<>>
               /\ rule.si_day # "" /\ rule.si_time # <<>>
               /\ \E rec \in RecordsOf(n) : rec.cy = <<>> /\ Len(rec.si) = 16
    /\ \E n \in SailingsAt :
           \E rule \in RulesOf(n) :
               /\ rule.cy_day # "" /\ rule.cy_time # <<>>
               /\ rule.si_day # "" /\ rule.si_time = <<>>
               /\ rule.cy_day # rule.si_day
               /\ \E rec \in RecordsOf(n) : Len(rec.cy) = 16 /\ Len(rec.si) = 10

\* the PODs with a column in the main header of the sheet
HeaderPods == {pod \in PODS : pod \in SeqToSet(call.data[HeaderAt])}

\* the destinations found for the sailing in row n: the PODs whose header
\* column has a cell that is not blank or, in a sheet without POD columns,
\* the PODs named in a cell of the row
DetectedPods(n) ==
    IF HeaderPods # {}
    THEN {pod \in HeaderPods :
             \E j \in 1..Len(call.data[HeaderAt]) :
                 /\ call.data[HeaderAt][j] = pod
                 /\ strip(chars(call.data[n][j])) # <<>>}
    ELSE {pod \in PODS :
             \E j \in 1..Len(call.data[n]) : has_sub(upper(call.data[n][j]), pod)}

\* the indexes of the records of the sheet for the sailing in row n
RecordIdx(n) == {k \in 1..Len(ret.rows) : ret.rows[k].vessel = call.data[n][2]}

\* C30: a sailing of the month in a TSL sheet has exactly one record for
\* each POD whose header column has a cell with a text in its row, and
\* exactly one record, for HONG KONG, when no destination is found for
\* it; its records have the vessel, the voyage and the ETD of the row and
\* the same ETA, transit time and cut-offs.
C30_OneRecordPerDestination ==
    (ret.done /\ call.f = "parse_tsl_sheet" /\ HeaderAt # 0 /\ ~ret.raised) =>
        \A n \in SailingsAt :
            LET pods == IF DetectedPods(n) = {} THEN {"HONG KONG"} ELSE DetectedPods(n)
            IN  /\ {ret.rows[k].pod : k \in RecordIdx(n)} = pods
                /\ Cardinality(RecordIdx(n)) = Cardinality(pods)
                /\ \A k \in RecordIdx(n) :
                       /\ ret.rows[k].voyage = call.data[n][3]
                       /\ ret.rows[k].etd = Render(EtdOf(n), FMT_YMD_SLASH)
                       /\ \A k2 \in RecordIdx(n) :
                              [ret.rows[k2] EXCEPT !.pod = ""]
                                  = [ret.rows[k] EXCEPT !.pod = ""]

\* a sheet with a sailing that has two records, for HONG KONG and SHEKOU,
\* a sailing with a text under SHEKOU only and one record, and a sailing
\* with no text under a POD and one record for HONG KONG
C30_Witness ==
    /\ ret.done /\ call.f = "parse_tsl_sheet" /\ HeaderAt # 0 /\ ~ret.raised
    /\ HeaderPods = {"HONG KONG", "SHEKOU"}
    /\ \E n \in SailingsAt :
           /\ DetectedPods(n) = {"HONG KONG", "SHEKOU"}
           /\ Cardinality(RecordIdx(n)) = 2
    /\ \E n \in SailingsAt :
           /\ DetectedPods(n) = {"SHEKOU"}
           /\ {ret.rows[k].pod : k \in RecordIdx(n)} = {"SHEKOU"}
    /\ \E n \in SailingsAt :
           /\ DetectedPods(n) = {}
           /\ Cardinality(RecordIdx(n)) = 1
           /\ {ret.rows[k].pod : k \in RecordIdx(n)} = {"HONG KONG"}

(***************************************************************************)
(* Properties of the export                                                *)
(***************************************************************************)
\* the sheets of the workbook on the page other than the Summary
PodSheets ==
    LET bucket(ws) == ws.title # "Summary" IN SelectSeq(ret.book, bucket)

\* the cells export writes for a record
Cells(r) == [j \in 1..Len(OUTPUT_COLS) |-> row_get(r, OUTPUT_COLS[j])]

\* the positions (sheet, row) of the POD sheets whose row has these cells
Positions(cells) ==
    {p \in UNION {{<<k, n>> : n \in 1..Len(PodSheets[k].rows)} :
                    k \in 1..Len(PodSheets)} :
        PodSheets[p[1]].rows[p[2]] = cells}

\* C11: after an export of a non-empty store every record is in exactly one
\* per-destination sheet, the one of its POD, and the sheets together hold
\* the records of the merged dataset, each as often as the dataset has it:
\* none lost, none duplicated
C11_BucketsPartitionRecords ==
    ret.done =>
        /\ \A i \in 1..Len(Merged) :
              /\ Cardinality(Positions(Cells(Merged[i])))
                   = Cardinality({j \in 1..Len(Merged) :
                                     Cells(Merged[j]) = Cells(Merged[i])})
              /\ \A p \in Positions(Cells(Merged[i])) :
                     PodSheets[p[1]].title = title(Merged[i].pod)
        /\ \A k \in 1..Len(PodSheets) :
              /\ \A n \in 1..Len(PodSheets[k].rows) :
                     \E i \in 1..Len(Merged) : Cells(Merged[i]) = PodSheets[k].rows[n]
              /\ \A k2 \in 1..Len(PodSheets) :
                     PodSheets[k2].title = PodSheets[k].title => k2 = k

\* an export of records for three destinations, one of them with several
\* records from two carriers
C11_Witness ==
    /\ ret.done
    /\ Len(PodSheets) >= 3
    /\ \E k \in 1..Len(PodSheets) : Len(PodSheets[k].rows) >= 3
    /\ \E i, j \in 1..Len(Merged) : Merged[i].carrier # Merged[j].carrier

\* C12: every per-destination sheet has the nine fixed columns in the order
\* of OUTPUT_COLS and a Carrier column, and each of its rows carries the
\* carrier of the record it was written for
C12_FixedColumnsAndCarrier ==
    ret.done =>
        \A k \in 1..Len(PodSheets) :
            LET ws == PodSheets[k]
                fixed(col) == col # "Carrier"
            IN  /\ SelectSeq(ws.header, fixed) = OUTPUT_COLS
                /\ \E c \in 1..Len(ws.header) :
                       /\ ws.header[c] = "Carrier"
                       /\ \A n \in 1..Len(ws.rows) :
                              \E i \in 1..Len(Merged) :
                                  /\ ws.rows[n][c] = Merged[i].carrier
                                  /\ title(Merged[i].pod) = ws.title

\* C13: the merged dataset read from the store is in ascending order of
\* ETD, the records whose ETD is empty or no date after all the others
C13_MergedSortedByEtd ==
    \A i, j \in 1..Len(Merged) :
        i < j => sort_le(etd_sort(Merged[i]), etd_sort(Merged[j]))

\* the order of two characters, and of two texts, as Python compares them
CharRank(c) ==
    IF IsUpper(c) THEN CHOOSE i \in 1..Len(ASCII_UPPERCASE) : ASCII_UPPERCASE[i] = c
    ELSE IF IsLower(c)
    THEN Len(ASCII_UPPERCASE)
         + (CHOOSE i \in 1..Len(ASCII_LOWERCASE) : ASCII_LOWERCASE[i] = c)
    ELSE 0

RECURSIVE StrLe(_, _)
StrLe(a, b) ==
    IF a = <<>> THEN TRUE
    ELSE IF b = <<>> THEN FALSE
    ELSE IF CharRank(Head(a)) # CharRank(Head(b))
    THEN CharRank(Head(a)) < CharRank(Head(b))
    ELSE StrLe(Tail(a), Tail(b))

\* C14 as stated: the per-destination sheets are listed in lexicographic
\* order of their names
C14_SheetsLexicographic ==
    ret.done =>
        \A k, k2 \in 1..Len(PodSheets) :
            k < k2 => StrLe(chars(PodSheets[k].title), chars(PodSheets[k2].title))

\* C14: the workbook lists the Summary sheet first and then the sheets of
\* the destinations that have records in the order of POD_LIST, so the
\* listing depends only on which destinations have records
C14_SheetsInPodListOrder ==
    ret.done =>
        LET has(pod) == \E i \in 1..Len(Merged) : Merged[i].pod = pod
            pods == SelectSeq(POD_LIST, has)
        IN  /\ Len(ret.book) = Len(pods) + 1
            /\ ret.book[1].title = "Summary"
            /\ \A k \in 1..Len(pods) : ret.book[k + 1].title = title(pods[k])

\* an export with records for SHEKOU and for KAOHSIUNG, whose sheets come in
\* that order
C14_Witness ==
    /\ ret.done
    /\ \E k \in 1..(Len(ret.book) - 1) :
           ret.book[k].title = "Shekou" /\ ret.book[k + 1].title = "Kaohsiung"
\* the ETD cell of a row of a sheet, parsed as a YYYY/MM/DD date
EtdCell(row) == strptime(row[5], FMT_YMD_SLASH)

\* C27: in every per-destination sheet of an export a row whose ETD is a
\* YYYY/MM/DD date has before it only rows with such an ETD that is not
\* later: the rows are in ascending ETD order and the rows whose ETD is no
\* such date come after all the others.
C27_SheetRowsByEtdUnparseableLast ==
    ret.done =>
        \A k \in 1..Len(PodSheets) :
            \A i, j \in 1..Len(PodSheets[k].rows) :
                (i < j /\ EtdCell(PodSheets[k].rows[j]).ok) =>
                    /\ EtdCell(PodSheets[k].rows[i]).ok
                    /\ EtdCell(PodSheets[k].rows[i]).ord
                           <= EtdCell(PodSheets[k].rows[j]).ord

\* an export of a dataset in which, for one POD, a record whose ETD is no
\* date comes before a dated one and a later ETD before an earlier one:
\* the sheet of the POD has the dated rows first
C27_Witness ==
    /\ ret.done
    /\ \E a, b, c \in 1..Len(Merged) :
           /\ a < b /\ b < c
           /\ Merged[a].pod = Merged[b].pod /\ Merged[b].pod = Merged[c].pod
           /\ etd_sort(Merged[a]).nat
           /\ ~etd_sort(Merged[b]).nat /\ ~etd_sort(Merged[c]).nat
           /\ etd_sort(Merged[c]).ord < etd_sort(Merged[b]).ord
           /\ \E k \in 1..Len(PodSheets) :
                  /\ PodSheets[k].title = title(Merged[a].pod)
                  /\ Len(PodSheets[k].rows) >= 3
                  /\ PodSheets[k].rows[1] = Cells(Merged[c])
                  /\ ~EtdCell(PodSheets[k].rows[Len(PodSheets[k].rows)]).ok

(***************************************************************************)
(* Properties of the store                                                 *)
(***************************************************************************)
\* the records of the store, of every carrier
StoreRecords ==
    UNION {SeqToSet(data_store[c]) : c \in Carriers}

\* C28: every record of the store has the POL HAIPHONG and a POD of
\* POD_LIST, after any sequence of uploads, scrapes and clears.
C28_StorePortsFixed ==
    \A r \in StoreRecords :
        /\ r.pol = "HAIPHONG"
        /\ r.pod \in {"HONG KONG", "SHEKOU", "KAOHSIUNG", "TAICHUNG"}

\* a store with the records of the CNC file that also lists a sailing for
\* SINGAPORE, and with records of TSL and of a scraper: the SINGAPORE
\* sailing is not among them
C28_Witness ==
    /\ \E r \in SeqToSet(data_store["CNC"]) : r.cy = CutA2
    /\ data_store["TSL"] # <<>>
    /\ \E c \in SeqToSet(carriers_web) : data_store[c] # <<>>
    /\ \A r \in StoreRecords : r.vessel # "V8"

\* C29: a step that stores the frame of an upload or of a scrape leaves
\* the records of every other carrier as they were.
C29_WriteTouchesOneSlot ==
    [][(last'.op \in {"upload", "scrape"} /\ last'.stored) =>
          \A c \in Carriers \ {last'.carrier} : data_store'[c] = data_store[c]]_vars

\* a write that replaced the records of its carrier while two other
\* carriers, one fed by uploads and one by a scraper, held records, which
\* they still hold
C29_Witness ==
    /\ last.op \in {"upload", "scrape"} /\ last.stored
    /\ last.prev # <<>>
    /\ last.prev # data_store[last.carrier]
    /\ \E c1 \in {"CNC", "TSL"} \ {last.carrier} : data_store[c1] # <<>>
    /\ \E c2 \in SeqToSet(carriers_web) \ {last.carrier} : data_store[c2] # <<>>

====
